---- MODULE Spec2Model ----
(***************************************************************************)
(* Model of the reflection-style serializer of serializable.hpp: the text  *)
(* helpers of namespace detail::string, the Serial tree (SerialPrimitive,  *)
(* SerialObject, SerialPointer) and the exposure engine of Serializable.   *)
(* Text is a sequence of one-character strings; std::size_t values are     *)
(* integers in which a negative number k stands for 2^64 + k (so npos is   *)
(* -1 and a wrapped difference is negative).                               *)
(***************************************************************************)
EXTENDS Integers, Sequences, FiniteSets, TLC

\* ------------------------------------------------------------------------
\* Bounds of the model
\* ------------------------------------------------------------------------
\* number of iteration orders of an unordered_map the model distinguishes
MaxOrd == 2
\* number of characters a client cuts off the end of a text
MaxDrop == 3
\* number of serialize/deserialize calls of one run
MaxSteps == 2
\* number of pieces a string handed to encodeString is put together from
MaxPieces == 3

\* the calls a client makes on one instance, one after the other
MaxCalls == 4

\* ------------------------------------------------------------------------
\* std::string helpers
\* ------------------------------------------------------------------------
npos == -1

\* an exception (std::out_of_range) leaving a string function
THROWN == <<"#THROW">>

Min(a, b) == IF a < b THEN a ELSE b

\* the least element of a non-empty set of integers
Least(S) == CHOOSE i \in S : \A j \in S : i <= j

\* std::string::find(char)
find(str, c) ==
    LET hits == {i \in 1..Len(str) : str[i] = c}
    IN IF hits = {} THEN npos ELSE Least(hits) - 1

\* the positions, counted from 0, at which from occurs in str
occurrences(str, from) ==
    {i \in 0..(Len(str) - Len(from)) :
        (from # <<>> => str[i + 1] = from[1]) /\ SubSeq(str, i + 1, i + Len(from)) = from}

\* std::string::find(from, pos), hits being the occurrences of from
findFrom(hits, pos) ==
    LET later == {i \in hits : i >= pos}
    IN IF later = {} THEN npos ELSE Least(later)

\* std::string::starts_with
starts_with(str, prefix) ==
    /\ Len(str) >= Len(prefix)
    /\ SubSeq(str, 1, Len(prefix)) = prefix

\* std::string::substr(pos, n): throws when pos > size(); n is a size_t
substr(str, pos, n) ==
    IF pos < 0 \/ pos > Len(str) THEN THROWN
    ELSE LET cnt == IF n < 0 THEN Len(str) - pos ELSE Min(n, Len(str) - pos)
         IN SubSeq(str, pos + 1, pos + cnt)

substring(str, start, end) == substr(str, start, end - start)

\* the second loop of replaceAll, from position pos on
RECURSIVE replaceLoop(_, _, _, _, _)
replaceLoop(str, hits, from, to, pos) ==
    LET match == findFrom(hits, pos)
    IN IF match = npos THEN substr(str, pos, match - pos)
       ELSE substr(str, pos, match - pos) \o to \o replaceLoop(str, hits, from, to, match + Len(from))

replaceAll(str, from, to) ==
    LET hits == occurrences(str, from)
    IN IF findFrom(hits, 0) = npos THEN str ELSE replaceLoop(str, hits, from, to, 0)

RECURSIVE connectLines(_)
connectLines(lines) ==
    IF lines = <<>> THEN <<>>
    ELSE Head(lines) \o <<"\n">> \o connectLines(Tail(lines))

connect(lines) ==
    LET str == connectLines(lines)
    IN substr(str, 0, Len(str) - 1)

\* split(): the while loop in closed form.  level moves by +1 at '{' and by
\* -1 at '}' but never below 0, so after the first pos characters it is the
\* brace balance of that prefix less the least balance of any shorter prefix
braceBalance(opening, closing, pos) ==
    Cardinality({i \in opening : i <= pos}) - Cardinality({i \in closing : i <= pos})

\* the least balance is that of the empty prefix or of a prefix ending in '}'
splitLevel(opening, closing, pos) ==
    LET least == Least({0} \cup {braceBalance(opening, closing, j) :
                                    j \in {i \in closing : i <= pos}})
    IN braceBalance(opening, closing, pos) - least

\* the positions at which the loop pushes a line: a newline read at level 0;
\* opening and closing are the positions of the braces, counted from 1
splitPoints(data) ==
    LET opening == {i \in 1..Len(data) : data[i] = "{"}
        closing == {i \in 1..Len(data) : data[i] = "}"}
    IN {pos \in 0..(Len(data) - 1) :
           data[pos + 1] = "\n" /\ splitLevel(opening, closing, pos) = 0}

\* the k-th element of a finite set of integers, counted from 1
Nth(S, k) == CHOOSE p \in S : Cardinality({q \in S : q < p}) = k - 1

split(data) ==
    IF data = <<>> THEN <<>>
    ELSE LET points == splitPoints(data)
             n      == Cardinality(points)
             \* begin, as the loop leaves it before pushing the k-th line
             begin(k) == IF k = 1 THEN 0 ELSE Nth(points, k - 1) + 1
         IN [k \in 1..(n + 1) |->
                substring(data, begin(k), IF k <= n THEN Nth(points, k) ELSE Len(data))]

\* indent without the tab of the first line
indent_later(data) == replaceAll(data, <<"\n">>, <<"\n", "\t">>)

indent(data) == <<"\t">> \o replaceAll(data, <<"\n">>, <<"\n", "\t">>)

unindent(data) ==
    IF data = <<>> THEN <<>>
    ELSE replaceAll(substr(data, 1, npos), <<"\n", "\t">>, <<"\n">>)

\* ------------------------------------------------------------------------
\* Numbers and their text (std::to_string, std::stol, std::stoul)
\* ------------------------------------------------------------------------
Digits == <<"0", "1", "2", "3", "4", "5", "6", "7", "8", "9">>

isdigit(c) == \E d \in 1..10 : Digits[d] = c

digitValue(c) == (CHOOSE d \in 1..10 : Digits[d] = c) - 1

isspace(c) == c \in {" ", "\t", "\n", "\r", "\f"}

CHAR_MIN == -128
CHAR_MAX == 127
UCHAR_MAX == 255
SHRT_MIN == -32768
SHRT_MAX == 32767
USHRT_MAX == 65535
INT_MAX == 2147483647
INT_MIN == -INT_MAX - 1

\* decimal numerals of the limits that do not fit the model's integers
UINT_MAX_DIGITS == <<"4", "2", "9", "4", "9", "6", "7", "2", "9", "5">>
LONG_MAX_DIGITS == <<"9", "2", "2", "3", "3", "7", "2", "0", "3", "6", "8", "5", "4", "7", "7", "5", "8", "0", "7">>
LONG_MIN_DIGITS == <<"9", "2", "2", "3", "3", "7", "2", "0", "3", "6", "8", "5", "4", "7", "7", "5", "8", "0", "8">>
ULONG_MAX_DIGITS == <<"1", "8", "4", "4", "6", "7", "4", "4", "0", "7", "3", "7", "0", "9", "5", "5", "1", "6", "1", "5">>

RECURSIVE to_string_unsigned(_)
to_string_unsigned(val) ==
    IF val < 10 THEN <<Digits[val + 1]>>
    ELSE to_string_unsigned(val \div 10) \o <<Digits[(val % 10) + 1]>>

\* std::to_string(long)
longToString(val) ==
    IF val = INT_MIN THEN <<"-", "2", "1", "4", "7", "4", "8", "3", "6", "4", "8">>
    ELSE IF val < 0 THEN <<"-">> \o to_string_unsigned(-val) ELSE to_string_unsigned(val)

\* std::to_string(unsigned long)
ulongToString(val) == to_string_unsigned(val)

\* faulty variant of intToString: the sign is lost
intToString_unsigned(val) == to_string_unsigned(IF val < 0 THEN -val ELSE val)

intToString(val) == longToString(val)

uintToString(val) == ulongToString(val)

RECURSIVE skipSpace(_)
skipSpace(str) ==
    IF str # <<>> /\ isspace(Head(str)) THEN skipSpace(Tail(str)) ELSE str

RECURSIVE digitRun(_)
digitRun(str) ==
    IF str # <<>> /\ isdigit(Head(str)) THEN <<Head(str)>> \o digitRun(Tail(str)) ELSE <<>>

RECURSIVE stripZeros(_)
stripZeros(ds) ==
    IF Len(ds) > 1 /\ Head(ds) = "0" THEN stripZeros(Tail(ds)) ELSE ds

\* a <= b for two numerals without leading zeros
RECURSIVE DecLE(_, _)
DecLE(a, b) ==
    IF Len(a) # Len(b) THEN Len(a) < Len(b)
    ELSE IF a = <<>> THEN TRUE
         ELSE IF Head(a) # Head(b) THEN digitValue(Head(a)) < digitValue(Head(b))
              ELSE DecLE(Tail(a), Tail(b))

RECURSIVE digitsValue(_, _)
digitsValue(ds, acc) ==
    IF ds = <<>> THEN acc ELSE digitsValue(Tail(ds), acc * 10 + digitValue(Head(ds)))

\* the scan of strtol/strtoul in base 10: leading white space, one optional
\* sign, the longest run of digits; whatever follows the digits is ignored
scanNumber(str) ==
    LET run(neg, ds) ==
            [valid |-> ds # <<>>, neg |-> neg, digits |-> IF ds = <<>> THEN ds ELSE stripZeros(ds)]
        sign(s1) ==
            run(s1 # <<>> /\ Head(s1) = "-",
                digitRun(IF s1 # <<>> /\ Head(s1) \in {"-", "+"} THEN Tail(s1) ELSE s1))
    IN sign(skipSpace(str))

\* a numeral the model's integers can hold
fitsModel(ds) == DecLE(ds, to_string_unsigned(INT_MAX))

nullopt == [some |-> FALSE, wide |-> FALSE, val |-> 0]

optional(v) == [some |-> TRUE, wide |-> FALSE, val |-> v]

\* a value beyond the model's integers, kept as its numeral (wrapped: the
\* value is 2^64 minus the numeral)
wide(neg, ds, wrapped) ==
    [some |-> TRUE, wide |-> TRUE, val |-> [neg |-> neg, digits |-> ds, wrapped |-> wrapped]]

\* std::stol inside try/catch(std::exception): no digits (invalid_argument)
\* and a value outside long (out_of_range) both give nullopt
stringToLong(str) ==
    LET stol(n) ==
            IF ~n.valid THEN nullopt
            ELSE IF fitsModel(n.digits)
                 THEN optional(digitsValue(n.digits, 0) * (IF n.neg THEN -1 ELSE 1))
                 ELSE IF n.neg /\ n.digits = <<"2", "1", "4", "7", "4", "8", "3", "6", "4", "8">> THEN optional(INT_MIN)
                 ELSE IF DecLE(n.digits, IF n.neg THEN LONG_MIN_DIGITS ELSE LONG_MAX_DIGITS)
                      THEN wide(n.neg, n.digits, FALSE)
                      ELSE nullopt
    IN stol(scanNumber(str))

\* std::stoul after the starts_with("-") test: strtoul negates a numeral
\* with a minus sign modulo 2^64
stringToULong(str) ==
    IF starts_with(str, <<"-">>) THEN nullopt
    ELSE LET stoul(n) ==
                 IF ~n.valid THEN nullopt
                 ELSE IF ~DecLE(n.digits, ULONG_MAX_DIGITS) THEN nullopt
                      ELSE IF n.neg /\ n.digits # <<"0">> THEN wide(TRUE, n.digits, TRUE)
                           ELSE IF fitsModel(n.digits) THEN optional(digitsValue(n.digits, 0))
                                ELSE wide(FALSE, n.digits, FALSE)
         IN stoul(scanNumber(str))

\* 2^64 - max as a numeral, for max < 2^16: the least numeral whose negation
\* modulo 2^64 is not above max
wrapLimit(max) == <<"1", "8", "4", "4", "6", "7", "4", "4", "0", "7", "3">> \o to_string_unsigned(709551616 - max)

\* 2^64 - UINT_MAX as a numeral
WRAP_UINT_DIGITS == <<"1", "8", "4", "4", "6", "7", "4", "4", "0", "6", "9", "4", "1", "4", "5", "8", "4", "3", "2", "1">>

\* 2^64 minus the numeral ds, for ds not below wrapLimit(USHRT_MAX)
unwrapped(ds) == 709551616 - digitsValue(SubSeq(ds, 12, Len(ds)), 0)

\* the range test of the conversions that use stringToLong
signedInRange(result, min, max) ==
    IF ~result.some THEN nullopt
    ELSE IF result.wide THEN nullopt
         ELSE IF result.val < min \/ result.val > max THEN nullopt
              ELSE optional(result.val)

\* the range test of the conversions that use stringToULong, max < 2^16
unsignedInRange(result, max) ==
    IF ~result.some THEN nullopt
    ELSE IF result.wide
         THEN IF result.val.wrapped /\ DecLE(wrapLimit(max), result.val.digits)
              THEN optional(unwrapped(result.val.digits))
              ELSE nullopt
         ELSE IF result.val > max THEN nullopt
              ELSE optional(result.val)

stringToChar(str) == signedInRange(stringToLong(str), CHAR_MIN, CHAR_MAX)

stringToUChar(str) == unsignedInRange(stringToULong(str), UCHAR_MAX)

stringToShort(str) == signedInRange(stringToLong(str), SHRT_MIN, SHRT_MAX)

stringToUShort(str) == unsignedInRange(stringToULong(str), USHRT_MAX)

stringToInt(str) ==
    LET inRange(result) ==
            IF ~result.some THEN nullopt
            ELSE IF result.wide THEN nullopt
                 ELSE IF result.val < INT_MIN \/ result.val > INT_MAX THEN nullopt
                      ELSE optional(result.val)
    IN inRange(stringToLong(str))

stringToUInt(str) ==
    LET inRange(result) ==
            IF ~result.some THEN nullopt
            ELSE IF result.wide /\ result.val.wrapped
                 THEN IF DecLE(WRAP_UINT_DIGITS, result.val.digits) THEN result ELSE nullopt
                 ELSE IF result.wide /\ ~DecLE(result.val.digits, UINT_MAX_DIGITS)
                      THEN nullopt
                      ELSE result
    IN inRange(stringToULong(str))

boolToString(val) == IF val THEN <<"t", "r", "u", "e">> ELSE <<"f", "a", "l", "s", "e">>

stringToBool(str) ==
    IF str = <<"t", "r", "u", "e">> THEN optional(TRUE)
    ELSE IF str = <<"f", "a", "l", "s", "e">> THEN optional(FALSE)
    ELSE nullopt

enumToString(val) == uintToString(val)

stringToEnum(str) == stringToUInt(str)

encodeString(val) ==
    <<"\"">> \o replaceAll(replaceAll(val, <<"\"">>, <<"&", "q", "u", "o", "t", ";">>), <<"\n">>, <<"&", "n", "e", "w", "l", "i", "n", "e", ";">>) \o <<"\"">>

decodeString(str) ==
    LET decoded(unsafe) ==
            IF unsafe = THROWN THEN THROWN
            ELSE replaceAll(replaceAll(unsafe, <<"&", "n", "e", "w", "l", "i", "n", "e", ";">>, <<"\n">>), <<"&", "q", "u", "o", "t", ";">>, <<"\"">>)
    IN decoded(substring(str, 1, Len(str) - 1))

\* ------------------------------------------------------------------------
\* Type tags and the three line parsers
\* ------------------------------------------------------------------------
typeToString(type) ==
    CASE type = "VOID"   -> <<"V", "O", "I", "D">>
      [] type = "BOOL"   -> <<"B", "O", "O", "L">>
      [] type = "INT"    -> <<"I", "N", "T">>
      [] type = "STRING" -> <<"S", "T", "R", "I", "N", "G">>
      [] type = "ENUM"   -> <<"E", "N", "U", "M">>
      [] OTHER           -> <<>>

stringToType(str) ==
    IF str = <<"B", "O", "O", "L">> THEN "BOOL"
    ELSE IF str = <<"I", "N", "T">> THEN "INT"
    ELSE IF str = <<"S", "T", "R", "I", "N", "G">> THEN "STRING"
    ELSE IF str = <<"E", "N", "U", "M">> THEN "ENUM"
    ELSE "VOID"

\* result of a parser: st is "ok", "none" (std::nullopt) or "throw"
\* (std::out_of_range from substring); part holds the extracted sections
parsed(parts) ==
    IF \E i \in 1..Len(parts) : parts[i] = THROWN
    THEN [st |-> "throw", part |-> <<>>]
    ELSE [st |-> "ok", part |-> parts]

noParse == [st |-> "none", part |-> <<>>]

\* Pattern: TYPE NAME = VALUE, Returns: (type, name, value)
parsePrimitive(data) ==
    LET space  == find(data, " ")
        equals == find(data, "=")
    IN IF space = npos THEN noParse
       ELSE IF equals = npos THEN noParse
       ELSE parsed(<<substring(data, 0, space),
                     substring(data, space + 1, equals - 1),
                     substring(data, equals + 2, Len(data))>>)

\* Pattern: OBJECT<CLASS> NAME = ADDRESS {\nCHILDREN\n}
\* Returns: (class, name, address, children)
parseObject(data) ==
    LET space   == find(data, " ")
        equals  == find(data, "=")
        opening == find(data, "{")
    IN IF space = npos THEN noParse
       ELSE IF equals = npos THEN noParse
       ELSE IF opening = npos THEN noParse
       ELSE parsed(<<substring(data, 7, space - 1),
                     substring(data, space + 1, equals - 1),
                     substring(data, equals + 2, opening - 1),
                     substring(data, opening + 2, Len(data) - 2)>>)

\* Pattern: PTR<CLASS> NAME = ADDRESS, Returns: (class, name, address)
parsePointer(data) ==
    LET space  == find(data, " ")
        equals == find(data, "=")
    IN IF space = npos THEN noParse
       ELSE IF equals = npos THEN noParse
       ELSE parsed(<<substring(data, 4, space - 1),
                     substring(data, space + 1, equals - 1),
                     substring(data, equals + 2, Len(data))>>)

\* ------------------------------------------------------------------------
\* Serial tree: SerialPrimitive, SerialObject, SerialPointer
\* ------------------------------------------------------------------------
\* void** of SerialPointer: the field (object address, field index) it points to
nullLocation == <<0, 0>>

NoChildren == [n \in {} |-> 0]

\* one record shape for the three node classes; kind is the dynamic type
Serial(kind, type, classID, name, value, realAddress, virtualAddress, children, location, address) ==
    [kind |-> kind, type |-> type, classID |-> classID, name |-> name, value |-> value,
     realAddress |-> realAddress, virtualAddress |-> virtualAddress, children |-> children,
     location |-> location, address |-> address]

SerialPrimitive(type, name, value) ==
    Serial("primitive", type, 0, name, value, 0, 0, NoChildren, nullLocation, 0)

SerialObject(classID, name, realAddress, virtualAddress) ==
    Serial("object", "VOID", classID, name, <<>>, realAddress, virtualAddress, NoChildren,
           nullLocation, 0)

\* the constructor reads *location when location is not null
SerialPointer(classID, name, location, pointee) ==
    Serial("pointer", "VOID", classID, name, <<>>, 0, 0, NoChildren, location,
           IF location # nullLocation THEN pointee ELSE 0)

\* default-constructed nodes
emptyPrimitive == SerialPrimitive("VOID", <<>>, <<>>)
emptyObject == SerialObject(0, <<>>, 0, 0)
emptyPointer == SerialPointer(0, <<>>, nullLocation, 0)

\* SerialObject::append: children[child->getName()] = child
append(node, child) ==
    [node EXCEPT !.children = (child.name :> child) @@ node.children]

hasChild(node, name) == name \in DOMAIN node.children

\* unsigned int classID = int: a negative int converts modulo 2^32
toUnsigned(val) ==
    IF val < 0 THEN [neg |-> TRUE, digits |-> to_string_unsigned(-val), wrapped |-> TRUE] ELSE val

\* --- iteration order of std::unordered_map -------------------------------
RECURSIVE SetToSeq(_)
SetToSeq(S) ==
    IF S = {} THEN <<>>
    ELSE LET x == CHOOSE y \in S : TRUE IN <<x>> \o SetToSeq(S \ {x})

Reverse(s) == [i \in 1..Len(s) |-> s[Len(s) + 1 - i]]

Rotate(s, r) == [i \in 1..Len(s) |-> s[((i - 1 + r) % Len(s)) + 1]]

\* the ord-th iteration order of the keys of a map: unspecified by the
\* container, so every operation draws ord
iteration(children, ord) ==
    LET keys == SetToSeq(DOMAIN children)
    IN IF keys = <<>> THEN keys
       ELSE Rotate(IF ord % 2 = 1 THEN Reverse(keys) ELSE keys, (ord \div 2) % Len(keys))

\* --- get(): rendering ----------------------------------------------------
SerialPrimitive_get(node) ==
    typeToString(node.type) \o <<" ">> \o node.name \o <<" ", "=", " ">> \o node.value

SerialPointer_get(node) ==
    <<"P", "T", "R", "<">> \o uintToString(node.classID) \o <<">", " ">> \o node.name \o <<" ", "=", " ">>
        \o ulongToString(node.address)

RECURSIVE SerialObject_get(_, _)
Serial_get(node, ord) ==
    CASE node.kind = "primitive" -> SerialPrimitive_get(node)
      [] node.kind = "pointer"   -> SerialPointer_get(node)
      [] OTHER                   -> SerialObject_get(node, ord)

SerialObject_get(node, ord) ==
    LET order        == iteration(node.children, ord)
        children     == [i \in 1..Len(order) |-> Serial_get(node.children[order[i]], ord)]
        childrenData == indent(connect(children))
    IN <<"O", "B", "J", "E", "C", "T", "<">> \o uintToString(node.classID) \o <<">", " ">> \o node.name \o <<" ", "=", " ">>
           \o ulongToString(node.virtualAddress) \o <<" ", "{", "\n">> \o childrenData \o <<"\n", "}">>

\* --- set(): parsing ------------------------------------------------------
\* result of set(): ret is "true", "false" or "throw"; node is the node as
\* set() left it
setResult(ret, node) == [ret |-> ret, node |-> node]

SerialPrimitive_set(node, data) ==
    LET apply(p) ==
            IF p.st = "throw" THEN setResult("throw", node)
            ELSE IF p.st = "none" THEN setResult("false", node)
            ELSE setResult("true", [node EXCEPT !.type = stringToType(p.part[1]),
                                                !.name = p.part[2],
                                                !.value = p.part[3]])
    IN apply(parsePrimitive(data))

SerialPointer_set(node, data) ==
    LET apply(p, parsedClassID, parsedAddress) ==
            IF ~parsedClassID.some THEN setResult("false", node)
            ELSE IF ~parsedAddress.some THEN setResult("false", node)
            ELSE setResult("true", [node EXCEPT !.classID = toUnsigned(parsedClassID.val),
                                                !.name = p.part[2],
                                                !.address = parsedAddress.val])
        parse(p) ==
            IF p.st = "throw" THEN setResult("throw", node)
            ELSE IF p.st = "none" THEN setResult("false", node)
            ELSE apply(p, stringToInt(p.part[1]), stringToULong(p.part[3]))
    IN parse(parsePointer(data))

RECURSIVE SerialObject_set(_, _)
RECURSIVE setChildren(_, _)
\* the loop over the child lines of SerialObject::set
setChildren(node, lines) ==
    IF lines = <<>> THEN setResult("true", node)
    ELSE LET appended(r) ==
                 IF r.ret # "true" THEN setResult(r.ret, node)
                 ELSE setChildren(append(node, r.node), Tail(lines))
             made(child) ==
                 IF starts_with(child, <<"O", "B", "J", "E", "C", "T">>) THEN SerialObject_set(emptyObject, child)
                 ELSE IF starts_with(child, <<"P", "T", "R">>) THEN SerialPointer_set(emptyPointer, child)
                 ELSE SerialPrimitive_set(emptyPrimitive, child)
         IN appended(made(Head(lines)))

SerialObject_set(node, data) ==
    LET apply(p, parsedClassID, parsedVirtualAddress) ==
            IF ~parsedClassID.some THEN setResult("false", node)
            ELSE IF ~parsedVirtualAddress.some THEN setResult("false", node)
            ELSE setChildren([node EXCEPT !.classID = toUnsigned(parsedClassID.val),
                                          !.name = p.part[2],
                                          !.virtualAddress = parsedVirtualAddress.val,
                                          !.children = NoChildren],
                             split(unindent(p.part[4])))
        parse(p) ==
            IF p.st = "throw" THEN setResult("throw", node)
            ELSE IF p.st = "none" THEN setResult("false", node)
            ELSE apply(p, stringToInt(p.part[1]), stringToULong(p.part[3]))
    IN parse(parseObject(data))
\* --- address virtualization ----------------------------------------------
emptyMap == [n \in {} |-> 0]

mapSet(map, key, value) == (key :> value) @@ map

RECURSIVE virtualizeAddresses(_, _, _)
RECURSIVE virtualizeAddressesLoop(_, _, _, _)
\* the loop over the children of SerialObject::virtualizeAddresses
virtualizeAddressesLoop(node, addressMap, order, ord) ==
    IF order = <<>> THEN [node |-> node, addressMap |-> addressMap]
    ELSE LET child == node.children[Head(order)]
             rest(r) ==
                 virtualizeAddressesLoop([node EXCEPT !.children[Head(order)] = r.node],
                                         r.addressMap, Tail(order), ord)
         IN IF child.kind = "object"
            THEN rest(virtualizeAddresses(child, addressMap, ord))
            ELSE virtualizeAddressesLoop(node, addressMap, Tail(order), ord)

virtualizeAddresses(node, addressMap, ord) ==
    LET virtualAddress == Cardinality(DOMAIN addressMap) + 1
        own            == [node EXCEPT !.virtualAddress = virtualAddress]
    IN virtualizeAddressesLoop(own, mapSet(addressMap, node.realAddress, virtualAddress),
                               iteration(node.children, ord), ord)

RECURSIVE restoreAddresses(_, _, _)
RECURSIVE restoreAddressesLoop(_, _, _, _)
restoreAddressesLoop(node, addressMap, order, ord) ==
    IF order = <<>> THEN addressMap
    ELSE LET child == node.children[Head(order)]
         IN restoreAddressesLoop(node,
                                 IF child.kind = "object"
                                 THEN restoreAddresses(child, addressMap, ord)
                                 ELSE addressMap,
                                 Tail(order), ord)

restoreAddresses(node, addressMap, ord) ==
    restoreAddressesLoop(node, mapSet(addressMap, node.virtualAddress, node.realAddress),
                         iteration(node.children, ord), ord)

\* SerialPointer::virtualizePointers
SerialPointer_virtualizePointers(node, addressMap) ==
    IF node.address \notin DOMAIN addressMap THEN [ret |-> FALSE, node |-> node]
    ELSE [ret |-> TRUE, node |-> [node EXCEPT !.address = addressMap[node.address]]]

\* SerialObject::virtualizePointers: the children of this node only
RECURSIVE virtualizePointersLoop(_, _, _)
virtualizePointersLoop(node, addressMap, order) ==
    IF order = <<>> THEN [ret |-> TRUE, node |-> node]
    ELSE LET child == node.children[Head(order)]
             rest(r, n) ==
                 IF ~r.ret THEN [ret |-> FALSE, node |-> n]
                 ELSE virtualizePointersLoop(n, addressMap, Tail(order))
             virtualized(r) == rest(r, [node EXCEPT !.children[Head(order)] = r.node])
         IN IF child.kind = "pointer"
            THEN virtualized(SerialPointer_virtualizePointers(child, addressMap))
            ELSE virtualizePointersLoop(node, addressMap, Tail(order))

virtualizePointers(node, addressMap, ord) ==
    virtualizePointersLoop(node, addressMap, iteration(node.children, ord))

\* ------------------------------------------------------------------------
\* Classes deriving from Serializable: classID() and the expose calls of
\* exposed(), in order.  kind is the expose overload the call resolves to.
\* ------------------------------------------------------------------------
field(kind, type, name) == [kind |-> kind, type |-> type, name |-> name]

\* field names a class may choose (the name is a std::string of the caller)
FieldNames ==
    << <<"a", " ", "b">>, <<"a", "\"", "b">>, <<"{">>, <<"}">>, <<"I", "N", "T", " ", "a">>, <<"O", "B", "J", "E", "C", "T", " ", "a">>, <<"P", "T", "R", " ", "a">>, <<>>,
       <<"a", "\n", "b">>, <<"a", " ", "=", " ", "1", "\n", "b">>, <<"a", " ", "=", " ", "b">>, <<"a", "=", "b">> >>

\* classes with one int field, and with two, the first under a chosen name
OneClasses ==
    << "One1", "One2", "One3", "One4", "One5", "One6", "One7", "One8", "One9", "One10",
       "One11", "One12" >>

TwoClasses ==
    << "Two1", "Two2", "Two3", "Two4", "Two5", "Two6", "Two7", "Two8", "Two9", "Two10",
       "Two11", "Two12" >>

NamedClasses == {OneClasses[k] : k \in 1..Len(FieldNames)} \cup {TwoClasses[k] : k \in 1..Len(FieldNames)}

NamedClassTable ==
    [c \in NamedClasses |->
        IF \E k \in 1..Len(FieldNames) : OneClasses[k] = c
        THEN [classID |-> 5,
              fields  |-> << field("primitive", "INT",
                                   FieldNames[CHOOSE k \in 1..Len(FieldNames) : OneClasses[k] = c]) >>]
        ELSE [classID |-> 6,
              fields  |-> << field("primitive", "INT",
                                   FieldNames[CHOOSE k \in 1..Len(FieldNames) : TwoClasses[k] = c]),
                             field("primitive", "INT", <<"z">>) >>]]

ClassTable ==
    [ P |-> [classID |-> 0,
             fields  |-> << field("primitive", "BOOL", <<"b">>),
                            field("primitive", "INT", <<"i">>),
                            field("object", "VOID", <<"m">>) >>],
      M |-> [classID |-> 1,
             fields  |-> << field("primitive", "ENUM", <<"e">>),
                            field("object", "VOID", <<"l">>) >>],
      L |-> [classID |-> 2,
             fields  |-> << field("primitive", "INT", <<"x">>) >>],
      R |-> [classID |-> 3,
             fields  |-> << field("primitive", "INT", <<"v">>),
                            field("pointer", "VOID", <<"p">>),
                            field("object", "VOID", <<"n">>) >>],
      N |-> [classID |-> 4,
             fields  |-> << field("pointer", "VOID", <<"q">>),
                            field("primitive", "INT", <<"w">>) >>],
      T |-> [classID |-> 7,
             fields  |-> << field("string", "STRING", <<"s">>),
                            field("primitive", "INT", <<"i">>) >>],
      W |-> [classID |-> 8,
             fields  |-> << field("object", "VOID", <<"t">>),
                            field("primitive", "INT", <<"j">>) >>],
      B |-> [classID |-> 0,
             fields  |-> << field("primitive", "INT", <<"v", "a", "l", "u", "e">>) >>],
      D |-> [classID |-> 9,
             fields  |-> << field("object", "VOID", <<"a">>),
                            field("object", "VOID", <<"b">>) >>] ]
        @@ NamedClassTable

\* Serializable::Result
Results == {"OK", "FILE", "STRUCTURE", "INTEGRITY", "TYPECHECK", "POINTER"}

\* ------------------------------------------------------------------------
\* State
\* ------------------------------------------------------------------------
VARIABLES
    heap,     \* address -> [class, val]: the Serializable objects and their fields
    engine,   \* address -> [mode, result, serial]: the private members of Serializable
    text,     \* the text the last serialize call returned
    origin,   \* the object and the heap `text` was serialized from
    call,     \* the last public call: operation, object, input, status, heap before
    steps,    \* number of calls made
    file      \* the file at the path handed to save and load

vars == <<heap, engine, text, origin, call, steps, file>>

classOf(h, a) == ClassTable[h[a].class]

\* the virtual call a->classID()
classID(h, a) == classOf(h, a).classID

fieldsOf(h, a) == classOf(h, a).fields

\* ------------------------------------------------------------------------
\* Exposure engine: one walk of exposed() over [h, eng], thrown when an
\* exception left the walk
\* ------------------------------------------------------------------------
setResultOf(w, this, r) == [w EXCEPT !.eng[this].result = r]

serializer(type, value) ==
    CASE type = "BOOL" -> boolToString(value)
      [] type = "INT"  -> intToString(value)
      [] type = "ENUM" -> enumToString(value)

deserializer(type, str) ==
    CASE type = "BOOL" -> stringToBool(str)
      [] type = "INT"  -> stringToInt(str)
      [] type = "ENUM" -> stringToEnum(str)

\* faulty variant of exposePrimitive: a field without a child node is skipped
exposePrimitive_lenient(w, this, k) ==
    LET f      == fieldsOf(w.h, this)[k]
        serial == w.eng[this].serial
        stored(primitiveValue) ==
            IF ~primitiveValue.some THEN setResultOf(w, this, "TYPECHECK")
            ELSE [w EXCEPT !.h[this].val[k] = primitiveValue.val]
        checked(serialValue) ==
            IF serialValue.kind # "primitive" THEN setResultOf(w, this, "TYPECHECK")
            ELSE IF serialValue.type # f.type THEN setResultOf(w, this, "TYPECHECK")
            ELSE stored(deserializer(f.type, serialValue.value))
    IN IF w.eng[this].result # "OK" THEN w
       ELSE IF w.eng[this].mode = "SERIALIZING"
       THEN [w EXCEPT !.eng[this].serial =
                 append(serial, SerialPrimitive(f.type, f.name, serializer(f.type, w.h[this].val[k])))]
       ELSE IF ~hasChild(serial, f.name) THEN w
       ELSE checked(serial.children[f.name])

\* faulty variant of exposePrimitive: the type tag of the node is not compared
exposePrimitive_untyped(w, this, k) ==
    LET f      == fieldsOf(w.h, this)[k]
        serial == w.eng[this].serial
        stored(primitiveValue) ==
            IF ~primitiveValue.some THEN setResultOf(w, this, "TYPECHECK")
            ELSE [w EXCEPT !.h[this].val[k] = primitiveValue.val]
        checked(serialValue) ==
            IF serialValue.kind # "primitive" THEN setResultOf(w, this, "TYPECHECK")
            ELSE stored(deserializer(f.type, serialValue.value))
    IN IF w.eng[this].result # "OK" THEN w
       ELSE IF w.eng[this].mode = "SERIALIZING"
       THEN [w EXCEPT !.eng[this].serial =
                 append(serial, SerialPrimitive(f.type, f.name, serializer(f.type, w.h[this].val[k])))]
       ELSE IF ~hasChild(serial, f.name) THEN setResultOf(w, this, "INTEGRITY")
       ELSE checked(serial.children[f.name])

\* faulty variant of exposePrimitive: the result of the fields before is not
\* looked at
exposePrimitive_unlatched(w, this, k) ==
    LET f      == fieldsOf(w.h, this)[k]
        serial == w.eng[this].serial
        stored(primitiveValue) ==
            IF ~primitiveValue.some THEN setResultOf(w, this, "TYPECHECK")
            ELSE [w EXCEPT !.h[this].val[k] = primitiveValue.val]
        checked(serialValue) ==
            IF serialValue.kind # "primitive" THEN setResultOf(w, this, "TYPECHECK")
            ELSE IF serialValue.type # f.type THEN setResultOf(w, this, "TYPECHECK")
            ELSE stored(deserializer(f.type, serialValue.value))
    IN IF w.eng[this].mode = "SERIALIZING"
       THEN [w EXCEPT !.eng[this].serial =
                 append(serial, SerialPrimitive(f.type, f.name, serializer(f.type, w.h[this].val[k])))]
       ELSE IF ~hasChild(serial, f.name) THEN setResultOf(w, this, "INTEGRITY")
       ELSE checked(serial.children[f.name])

\* Serializable::exposePrimitive
exposePrimitive(w, this, k) ==
    LET f      == fieldsOf(w.h, this)[k]
        serial == w.eng[this].serial
        stored(primitiveValue) ==
            IF ~primitiveValue.some THEN setResultOf(w, this, "TYPECHECK")
            ELSE [w EXCEPT !.h[this].val[k] = primitiveValue.val]
        checked(serialValue) ==
            IF serialValue.kind # "primitive" THEN setResultOf(w, this, "TYPECHECK")
            ELSE IF serialValue.type # f.type THEN setResultOf(w, this, "TYPECHECK")
            ELSE stored(deserializer(f.type, serialValue.value))
    IN IF w.eng[this].result # "OK" THEN w
       ELSE IF w.eng[this].mode = "SERIALIZING"
       THEN [w EXCEPT !.eng[this].serial =
                 append(serial, SerialPrimitive(f.type, f.name, serializer(f.type, w.h[this].val[k])))]
       ELSE IF ~hasChild(serial, f.name) THEN setResultOf(w, this, "INTEGRITY")
       ELSE checked(serial.children[f.name])

\* Serializable::expose(const std::string&, std::string&)
exposeString(w, this, k) ==
    LET f      == fieldsOf(w.h, this)[k]
        serial == w.eng[this].serial
        stored(decoded) ==
            IF decoded = THROWN THEN [w EXCEPT !.thrown = TRUE]
            ELSE [w EXCEPT !.h[this].val[k] = decoded]
        checked(serialValue) ==
            IF serialValue.kind # "primitive" THEN setResultOf(w, this, "TYPECHECK")
            ELSE IF serialValue.type # "STRING" THEN setResultOf(w, this, "TYPECHECK")
            ELSE stored(decodeString(serialValue.value))
    IN IF w.eng[this].result # "OK" THEN w
       ELSE IF w.eng[this].mode = "SERIALIZING"
       THEN [w EXCEPT !.eng[this].serial =
                 append(serial, SerialPrimitive("STRING", f.name, encodeString(w.h[this].val[k])))]
       ELSE IF ~hasChild(serial, f.name) THEN setResultOf(w, this, "INTEGRITY")
       ELSE checked(serial.children[f.name])

\* faulty variant of expose(const std::string&, S*&): a null reference is
\* skipped instead of reported
exposePointer_nullable(w, this, k) ==
    LET f      == fieldsOf(w.h, this)[k]
        serial == w.eng[this].serial
        value  == w.h[this].val[k]
    IN IF w.eng[this].result # "OK" THEN w
       ELSE IF value = 0 THEN w
       ELSE IF w.eng[this].mode = "SERIALIZING"
       THEN [w EXCEPT !.eng[this].serial =
                 append(serial, SerialPointer(classID(w.h, value), f.name, <<this, k>>, value))]
       ELSE IF ~hasChild(serial, f.name) THEN setResultOf(w, this, "INTEGRITY")
       ELSE LET serialValue == serial.children[f.name]
            IN IF serialValue.kind # "pointer" THEN setResultOf(w, this, "TYPECHECK")
               ELSE IF serialValue.classID # classID(w.h, value) THEN setResultOf(w, this, "TYPECHECK")
               ELSE [w EXCEPT !.eng[this].serial.children[f.name].location = <<this, k>>]

\* faulty variant of expose(const std::string&, S*&): the reference field is
\* cleared when its node is found, before the walk has ended
exposePointer_eager(w, this, k) ==
    LET f      == fieldsOf(w.h, this)[k]
        serial == w.eng[this].serial
        value  == w.h[this].val[k]
    IN IF w.eng[this].result # "OK" THEN w
       ELSE IF value = 0 THEN setResultOf(w, this, "POINTER")
       ELSE IF w.eng[this].mode = "SERIALIZING"
       THEN [w EXCEPT !.eng[this].serial =
                 append(serial, SerialPointer(classID(w.h, value), f.name, <<this, k>>, value))]
       ELSE IF ~hasChild(serial, f.name) THEN setResultOf(w, this, "INTEGRITY")
       ELSE LET serialValue == serial.children[f.name]
            IN IF serialValue.kind # "pointer" THEN setResultOf(w, this, "TYPECHECK")
               ELSE IF serialValue.classID # classID(w.h, value) THEN setResultOf(w, this, "TYPECHECK")
               ELSE [w EXCEPT !.eng[this].serial.children[f.name].location = <<this, k>>,
                              !.h[this].val[k] = 0]

\* Serializable::expose(const std::string&, S*&)
exposePointer(w, this, k) ==
    LET f      == fieldsOf(w.h, this)[k]
        serial == w.eng[this].serial
        value  == w.h[this].val[k]
    IN IF w.eng[this].result # "OK" THEN w
       ELSE IF value = 0 THEN setResultOf(w, this, "POINTER")
       ELSE IF w.eng[this].mode = "SERIALIZING"
       THEN [w EXCEPT !.eng[this].serial =
                 append(serial, SerialPointer(classID(w.h, value), f.name, <<this, k>>, value))]
       ELSE IF ~hasChild(serial, f.name) THEN setResultOf(w, this, "INTEGRITY")
       ELSE LET serialValue == serial.children[f.name]
            IN IF serialValue.kind # "pointer" THEN setResultOf(w, this, "TYPECHECK")
               ELSE IF serialValue.classID # classID(w.h, value) THEN setResultOf(w, this, "TYPECHECK")
               ELSE [w EXCEPT !.eng[this].serial.children[f.name].location = <<this, k>>]

RECURSIVE exposed(_, _, _)
\* Serializable::expose(const std::string&, Serializable&)
exposeObject(w, this, k) ==
    LET f      == fieldsOf(w.h, this)[k]
        serial == w.eng[this].serial
        value  == w.h[this].val[k]
        \* after value.exposed(): the result and the tree of value are taken over
        appended(w2) ==
            IF w2.thrown THEN w2
            ELSE IF w2.eng[value].result # w2.eng[this].result
            THEN setResultOf(w2, this, w2.eng[value].result)
            ELSE [w2 EXCEPT !.eng[this].serial = append(@, w2.eng[value].serial)]
        adopted(w3) ==
            IF w3.thrown THEN w3
            ELSE IF w3.eng[value].result # w3.eng[this].result
            THEN setResultOf(w3, this, w3.eng[value].result)
            ELSE w3
        \* the child nodes are shared between value.serial and this->serial
        shared(w2) ==
            adopted([w2 EXCEPT !.eng[this].serial.children[f.name].children =
                                   w2.eng[value].serial.children])
        described(serialObject) ==
            shared(exposed([w EXCEPT !.eng[this].serial.children[f.name] = serialObject,
                                     !.eng[value] = [mode |-> "DESERIALIZING", result |-> "OK",
                                                     serial |-> serialObject]],
                           value, 1))
        checked(serialValue) ==
            IF serialValue.kind # "object" THEN setResultOf(w, this, "TYPECHECK")
            ELSE IF serialValue.classID # classID(w.h, value) THEN setResultOf(w, this, "TYPECHECK")
            ELSE described([serialValue EXCEPT !.realAddress = value])
    IN IF w.eng[this].result # "OK" THEN w
       ELSE IF w.eng[this].mode = "SERIALIZING"
       THEN appended(exposed([w EXCEPT !.eng[value] =
                                  [mode |-> "SERIALIZING", result |-> "OK",
                                   serial |-> SerialObject(classID(w.h, value), f.name, value, 0)]],
                             value, 1))
       ELSE IF ~hasChild(serial, f.name) THEN setResultOf(w, this, "INTEGRITY")
       ELSE checked(serial.children[f.name])

\* the expose calls of this->exposed(), from the k-th on
exposed(w, this, k) ==
    IF k > Len(fieldsOf(w.h, this)) \/ w.thrown THEN w
    ELSE LET f  == fieldsOf(w.h, this)[k]
             w1 == CASE f.kind = "primitive" -> exposePrimitive(w, this, k)
                     [] f.kind = "string"    -> exposeString(w, this, k)
                     [] f.kind = "pointer"   -> exposePointer(w, this, k)
                     [] f.kind = "object"    -> exposeObject(w, this, k)
         IN exposed(w1, this, k + 1)

\* --- reference resolution -------------------------------------------------
\* outcomes of the undefined call through a null Serializable*
UBOutcomes == {"crash", "true", "false"}

\* faulty variant of SerialPointer::restorePointers: the resolved identity is
\* not written to the reference field
SerialPointer_restorePointers_unwritten(node, addressMap, h, ub) ==
    IF node.address \notin DOMAIN addressMap THEN [ret |-> "false", node |-> node, h |-> h]
    ELSE LET n1 == [node EXCEPT !.address = addressMap[node.address]]
         IN IF n1.location = nullLocation THEN [ret |-> "false", node |-> n1, h |-> h]
            ELSE IF n1.address = 0 THEN [ret |-> ub, node |-> n1, h |-> h]
            ELSE [ret  |-> IF n1.classID = classID(h, n1.address) THEN "true" ELSE "false",
                  node |-> n1, h |-> h]

\* SerialPointer::restorePointers; ret is "true", "false" or "crash"
SerialPointer_restorePointers(node, addressMap, h, ub) ==
    IF node.address \notin DOMAIN addressMap THEN [ret |-> "false", node |-> node, h |-> h]
    ELSE LET n1 == [node EXCEPT !.address = addressMap[node.address]]
         IN IF n1.location = nullLocation THEN [ret |-> "false", node |-> n1, h |-> h]
            ELSE LET h1 == [h EXCEPT ![n1.location[1]].val[n1.location[2]] = n1.address]
                 IN IF n1.address = 0 THEN [ret |-> ub, node |-> n1, h |-> h1]
                    ELSE [ret  |-> IF n1.classID = classID(h1, n1.address) THEN "true" ELSE "false",
                          node |-> n1, h |-> h1]

\* SerialObject::restorePointers: the children of this node only
RECURSIVE restorePointersLoop(_, _, _, _, _)
restorePointersLoop(node, addressMap, order, h, ub) ==
    IF order = <<>> THEN [ret |-> "true", node |-> node, h |-> h]
    ELSE LET child == node.children[Head(order)]
             rest(r, n) ==
                 IF r.ret # "true" THEN [ret |-> r.ret, node |-> n, h |-> r.h]
                 ELSE restorePointersLoop(n, addressMap, Tail(order), r.h, ub)
             restored(r) == rest(r, [node EXCEPT !.children[Head(order)] = r.node])
         IN IF child.kind = "pointer"
            THEN restored(SerialPointer_restorePointers(child, addressMap, h, ub))
            ELSE restorePointersLoop(node, addressMap, Tail(order), h, ub)

restorePointers(node, addressMap, ord, h, ub) ==
    restorePointersLoop(node, addressMap, iteration(node.children, ord), h, ub)

\* ------------------------------------------------------------------------
\* Public operations of Serializable
\* ------------------------------------------------------------------------
\* nested Serializable members keep shared_ptrs to the child nodes of the
\* tree: what virtualizeAddresses wrote to those nodes shows in their serial
RECURSIVE shareChildren(_, _, _, _, _)
shareChildren(eng, h, this, node, k) ==
    IF k > Len(fieldsOf(h, this)) THEN eng
    ELSE LET f == fieldsOf(h, this)[k]
             m == h[this].val[k]
         IN IF /\ f.kind = "object"
               /\ hasChild(node, f.name)
               /\ node.children[f.name].kind = "object"
               /\ node.children[f.name].realAddress = m
            THEN shareChildren(
                     shareChildren([eng EXCEPT ![m].serial.children = node.children[f.name].children],
                                   h, m, node.children[f.name], 1),
                     h, this, node, k + 1)
            ELSE shareChildren(eng, h, this, node, k + 1)

\* Serializable::serialize
serialize(h, eng, this, ord) ==
    LET rendered(vp, e1) ==
            IF ~vp.ret THEN [eng |-> e1, result |-> "POINTER", data |-> <<>>]
            ELSE [eng |-> e1, result |-> "OK", data |-> SerialObject_get(vp.node, ord)]
        virtualized(w, vp) ==
            rendered(vp, shareChildren([w.eng EXCEPT ![this].serial = vp.node], h, this, vp.node, 1))
        addressed(w, va) == virtualized(w, virtualizePointers(va.node, va.addressMap, ord))
        described(w) ==
            IF w.eng[this].result # "OK"
            THEN [eng |-> w.eng, result |-> w.eng[this].result, data |-> <<>>]
            ELSE addressed(w, virtualizeAddresses(w.eng[this].serial, emptyMap, ord))
    IN described(exposed([h   |-> h,
                          eng |-> [eng EXCEPT ![this] =
                                      [mode |-> "SERIALIZING", result |-> "OK",
                                       serial |-> SerialObject(classID(h, this), <<"r", "o", "o", "t">>, this, 0)]],
                          thrown |-> FALSE],
                         this, 1))

\* faulty variant of Serializable::deserialize: the class of the root is
\* compared after the exposure walk
deserialize_late(h, eng, this, data, ord, ub) ==
    LET restored(w, rp) ==
            [h |-> rp.h, eng |-> [w.eng EXCEPT ![this].serial = rp.node],
             result |-> CASE rp.ret = "crash" -> "CRASH"
                          [] rp.ret = "false" -> "POINTER"
                          [] OTHER            -> "OK"]
        addressed(w, root) ==
            restored(w, restorePointers(root, restoreAddresses(root, emptyMap, ord), ord, w.h, ub))
        described(s, w) ==
            IF w.thrown THEN [h |-> w.h, eng |-> w.eng, result |-> "EXCEPTION"]
            ELSE IF s.node.classID # classID(h, this)
            THEN [h |-> w.h, eng |-> w.eng, result |-> "TYPECHECK"]
            ELSE IF w.eng[this].result # "OK"
            THEN [h |-> w.h, eng |-> w.eng, result |-> w.eng[this].result]
            ELSE addressed(w, [w.eng[this].serial EXCEPT !.realAddress = this])
        checked(s, e0) ==
            IF s.ret = "throw" THEN [h |-> h, eng |-> e0, result |-> "EXCEPTION"]
            ELSE IF s.ret = "false" THEN [h |-> h, eng |-> e0, result |-> "STRUCTURE"]
            ELSE described(s, exposed([h |-> h, eng |-> e0, thrown |-> FALSE], this, 1))
        set(s) ==
            checked(s, [eng EXCEPT ![this] = [mode |-> "DESERIALIZING", result |-> "OK",
                                             serial |-> s.node]])
    IN set(SerialObject_set(eng[this].serial, data))

\* faulty variant of Serializable::deserialize: the failure flag of the
\* earlier call is not cleared
deserialize_unreset(h, eng, this, data, ord, ub) ==
    LET restored(w, rp) ==
            [h |-> rp.h, eng |-> [w.eng EXCEPT ![this].serial = rp.node],
             result |-> CASE rp.ret = "crash" -> "CRASH"
                          [] rp.ret = "false" -> "POINTER"
                          [] OTHER            -> "OK"]
        addressed(w, root) ==
            restored(w, restorePointers(root, restoreAddresses(root, emptyMap, ord), ord, w.h, ub))
        described(w) ==
            IF w.thrown THEN [h |-> w.h, eng |-> w.eng, result |-> "EXCEPTION"]
            ELSE IF w.eng[this].result # "OK"
            THEN [h |-> w.h, eng |-> w.eng, result |-> w.eng[this].result]
            ELSE addressed(w, [w.eng[this].serial EXCEPT !.realAddress = this])
        checked(s, e0) ==
            IF s.ret = "throw" THEN [h |-> h, eng |-> e0, result |-> "EXCEPTION"]
            ELSE IF s.ret = "false" THEN [h |-> h, eng |-> e0, result |-> "STRUCTURE"]
            ELSE IF s.node.classID # classID(h, this)
            THEN [h |-> h, eng |-> e0, result |-> "TYPECHECK"]
            ELSE described(exposed([h |-> h, eng |-> e0, thrown |-> FALSE], this, 1))
        set(s) ==
            checked(s, [eng EXCEPT ![this] = [mode |-> "DESERIALIZING", result |-> eng[this].result,
                                             serial |-> s.node]])
    IN set(SerialObject_set(eng[this].serial, data))

\* Serializable::deserialize; result is a Result, "EXCEPTION" when
\* std::out_of_range leaves the call, "CRASH" when the undefined call crashes
deserialize(h, eng, this, data, ord, ub) ==
    LET restored(w, rp) ==
            [h |-> rp.h, eng |-> [w.eng EXCEPT ![this].serial = rp.node],
             result |-> CASE rp.ret = "crash" -> "CRASH"
                          [] rp.ret = "false" -> "POINTER"
                          [] OTHER            -> "OK"]
        addressed(w, root) ==
            restored(w, restorePointers(root, restoreAddresses(root, emptyMap, ord), ord, w.h, ub))
        described(w) ==
            IF w.thrown THEN [h |-> w.h, eng |-> w.eng, result |-> "EXCEPTION"]
            ELSE IF w.eng[this].result # "OK"
            THEN [h |-> w.h, eng |-> w.eng, result |-> w.eng[this].result]
            ELSE addressed(w, [w.eng[this].serial EXCEPT !.realAddress = this])
        checked(s, e0) ==
            IF s.ret = "throw" THEN [h |-> h, eng |-> e0, result |-> "EXCEPTION"]
            ELSE IF s.ret = "false" THEN [h |-> h, eng |-> e0, result |-> "STRUCTURE"]
            ELSE IF s.node.classID # classID(h, this)
            THEN [h |-> h, eng |-> e0, result |-> "TYPECHECK"]
            ELSE described(exposed([h |-> h, eng |-> e0, thrown |-> FALSE], this, 1))
        set(s) ==
            checked(s, [eng EXCEPT ![this] = [mode |-> "DESERIALIZING", result |-> "OK",
                                             serial |-> s.node]])
    IN set(SerialObject_set(eng[this].serial, data))
\* ------------------------------------------------------------------------
\* Objects of a run
\* ------------------------------------------------------------------------
object(class, val) == [class |-> class, val |-> val]

\* a P with its members M and L at 100 (the source of a round trip), and a
\* default-constructed P at 200 (its target)
PlainHeap(b, i, e, x) ==
    (100 :> object("P", <<b, i, 110>>)) @@ (110 :> object("M", <<e, 120>>))
        @@ (120 :> object("L", <<x>>))
        @@ (200 :> object("P", <<FALSE, 0, 210>>)) @@ (210 :> object("M", <<0, 220>>))
        @@ (220 :> object("L", <<0>>))

PlainValues == { <<TRUE, 42, 2, -7>>, <<FALSE, -1, 0, INT_MAX>> }

\* an R with its member N at 300 (source) and a second one at 400 (target);
\* p, q are the reference fields of the source, tp, tq those of the target
RefHeap(p, q, tp, tq) ==
    (300 :> object("R", <<5, p, 310>>)) @@ (310 :> object("N", <<q, 6>>))
        @@ (400 :> object("R", <<0, tp, 410>>)) @@ (410 :> object("N", <<tq, 0>>))

\* <<p, q, tp, tq>>: references to the root, to the member, null (0) and to
\* an object outside the serialized graph (400 for the source, 300 for the
\* target)
RefValues ==
    { <<300, 310, 400, 410>>, <<310, 300, 410, 400>>, <<0, 300, 400, 400>>,
      <<300, 0, 400, 400>>, <<400, 300, 400, 400>>, <<300, 400, 400, 400>>,
      <<300, 300, 400, 300>> }

\* an N on its own at 500 (source) and a second one at 600 (target)
SelfHeap(q, tq) ==
    (500 :> object("N", <<q, 7>>)) @@ (600 :> object("N", <<tq, 0>>))

\* <<q, tq>>: the source refers to itself; the target to itself, to the
\* source, or to nothing
SelfValues == { <<500, 600>>, <<500, 500>>, <<500, 0>> }

\* an object with fields of chosen names at 700 (source) and a second one of
\* the same class at 800 (target)
NamedHeap(class) ==
    LET n == Len(ClassTable[class].fields)
    IN (700 :> object(class, SubSeq(<<5, 6>>, 1, n))) @@ (800 :> object(class, SubSeq(<<0, 0>>, 1, n)))

\* a T with the string s at 900, or a W with its member T at 910 (source),
\* and a default-constructed one at 1000 (target)
StringHeap(class, s) ==
    IF class = "T"
    THEN (900 :> object("T", <<s, 5>>)) @@ (1000 :> object("T", << <<>>, 0>>))
    ELSE (900 :> object("W", <<910, 6>>)) @@ (910 :> object("T", <<s, 5>>))
            @@ (1000 :> object("W", <<1010, 0>>)) @@ (1010 :> object("T", << <<>>, 0>>))

StringValues == { <<"{">>, <<"}">>, <<"{", "}">>, <<"}", "{">>, <<"a", " ", "b">> }

\* a Basic (class B, or L with its own class tag) with one int field at 1100
\* (source) and a default-constructed one at 1200 (target)
BasicHeap(class, value) ==
    (1100 :> object(class, <<value>>)) @@ (1200 :> object(class, <<0>>))

BasicValues == {42, -7, 0}

\* a D at 1300 (source) that exposes its one member M under the names a and
\* b, and a second one at 1400 (target)
SharedHeap(e, x) ==
    (1300 :> object("D", <<1310, 1310>>)) @@ (1310 :> object("M", <<e, 1320>>))
        @@ (1320 :> object("L", <<x>>))
        @@ (1400 :> object("D", <<1410, 1410>>)) @@ (1410 :> object("M", <<0, 1420>>))
        @@ (1420 :> object("L", <<0>>))

Sources == {100, 300, 500, 700, 900, 1100, 1300}

Targets == {200, 400, 600, 800, 1000, 1200, 1400}

idle == [mode |-> "SERIALIZING", result |-> "OK", serial |-> emptyObject]

noTamper == [kind |-> "none", arg |-> 0]

noCall(h) ==
    [op |-> "none", object |-> 0, input |-> <<>>, tamper |-> noTamper, status |-> "OK",
     output |-> <<>>, before |-> h, ord |-> 0]

noOrigin == [root |-> 0, heap |-> emptyMap]

\* the path names nothing, a regular file with its contents, or a directory
noFile == [kind |-> "absent", data |-> <<>>]

regular(data) == [kind |-> "regular", data |-> data]

directory == [kind |-> "directory", data |-> <<>>]

InitPlain ==
    /\ \E v \in PlainValues : heap = PlainHeap(v[1], v[2], v[3], v[4])
    /\ engine = [a \in DOMAIN heap |-> idle]
    /\ text = <<>>
    /\ origin = noOrigin
    /\ call = noCall(heap)
    /\ steps = 0
    /\ file = noFile

InitRef ==
    /\ \E v \in RefValues : heap = RefHeap(v[1], v[2], v[3], v[4])
    /\ engine = [a \in DOMAIN heap |-> idle]
    /\ text = <<>>
    /\ origin = noOrigin
    /\ call = noCall(heap)
    /\ steps = 0
    /\ file = noFile

InitSelf ==
    /\ \E v \in SelfValues : heap = SelfHeap(v[1], v[2])
    /\ engine = [a \in DOMAIN heap |-> idle]
    /\ text = <<>>
    /\ origin = noOrigin
    /\ call = noCall(heap)
    /\ steps = 0
    /\ file = noFile

InitNamed ==
    /\ \E class \in NamedClasses : heap = NamedHeap(class)
    /\ engine = [a \in DOMAIN heap |-> idle]
    /\ text = <<>>
    /\ origin = noOrigin
    /\ call = noCall(heap)
    /\ steps = 0
    /\ file = noFile

Init == InitPlain \/ InitRef \/ InitSelf

Orders == 0..(MaxOrd - 1)

\* ------------------------------------------------------------------------
\* Actions
\* ------------------------------------------------------------------------
\* a client calls this->serialize() and keeps the returned text
SerializeWithin(bound, this, ord) ==
    /\ steps < bound
    /\ \E r \in {serialize(heap, engine, this, ord)} :
          /\ engine' = r.eng
          /\ text' = r.data
          /\ origin' = IF r.result = "OK" THEN [root |-> this, heap |-> heap] ELSE noOrigin
          /\ call' = [op |-> "serialize", object |-> this, input |-> <<>>, tamper |-> noTamper,
                      status |-> r.result, output |-> r.data, before |-> heap, ord |-> ord]
    /\ steps' = steps + 1
    /\ UNCHANGED <<heap, file>>

Serialize(this, ord) == SerializeWithin(MaxSteps, this, ord)

\* replacements a client makes in a text: <<from, to>>
Replacements ==
    << << <<"P", "T", "R", "<", "3", ">", " ", "p", " ", "=", " ", "1">>, <<"P", "T", "R", "<", "3", ">", " ", "p", " ", "=", " ", "4", "2">> >>,
       << <<"I", "N", "T", " ", "i">>, <<"I", "N", "T", " ", "j">> >>,
       << <<"O", "B", "J", "E", "C", "T", "<", "1", ">", " ", "m">>, <<"O", "B", "J", "E", "C", "T", "<", "1", ">", " ", "k">> >>,
       << <<"P", "T", "R", "<", "3", ">", " ", "p">>, <<"P", "T", "R", "<", "3", ">", " ", "r">> >>,
       << <<"I", "N", "T", " ", "x">>, <<"I", "N", "T", " ", "y">> >>,
       << <<"P", "T", "R", "<", "4", ">", " ", "q">>, <<"P", "T", "R", "<", "4", ">", " ", "r">> >>,
       << <<"I", "N", "T", " ", "i">>, <<"B", "O", "O", "L", " ", "i">> >>,
       << <<"O", "B", "J", "E", "C", "T", "<", "1", ">", " ", "m">>, <<"O", "B", "J", "E", "C", "T", "<", "2", ">", " ", "m">> >>,
       << <<">", " ", "r", "o", "o", "t">>, <<"9", ">", " ", "r", "o", "o", "t">> >>,
       << <<"I", "N", "T", " ", "i">>, <<"P", "T", "R", "<", "0", ">", " ", "i">> >>,
       << <<"B", "O", "O", "L", " ", "b", " ", "=", " ", "t", "r", "u", "e">>, <<"O", "B", "J", "E", "C", "T", "<", "0", ">", " ", "b", " ", "=", " ", "7", " ", "{", "\n", "\t", "}">> >>,
       << <<"P", "T", "R", "<", "3", ">", " ", "p">>, <<"I", "N", "T", " ", "p">> >>,
       << <<"O", "B", "J", "E", "C", "T", "<", "1", ">", " ", "m", " ", "=", " ", "2", " ", "{">>, <<"I", "N", "T", " ", "m", " ", "=", " ", "2", "\n", "\t", "O", "B", "J", "E", "C", "T", "<", "1", ">", " ", "z", " ", "=", " ", "2", " ", "{">> >>,
       << <<"O", "B", "J", "E", "C", "T", "<", "4", ">", " ", "n", " ", "=", " ", "2", " ", "{">>, <<"P", "T", "R", "<", "4", ">", " ", "n", " ", "=", " ", "2", "\n", "\t", "O", "B", "J", "E", "C", "T", "<", "4", ">", " ", "z", " ", "=", " ", "2", " ", "{">> >>,
       << <<"P", "T", "R", "<", "3", ">", " ", "q", " ", "=", " ", "3", "0", "0">>, <<"P", "T", "R", "<", "3", ">", " ", "q", " ", "=", " ", "1">> >> >>

\* the replacements that rename a field, and those that change the kind, the
\* type or the class of a node
Renames == 2..6

Retypes == 7..14

Suffixes == << <<"\n">>, <<"X">>, <<" ", "a", " ", "=", " ", "5", ".", ".">> >>

Literals ==
    << <<>>, <<"{", "\n", "\t", "\"", "n", "a", "m", "e", "\"", ":", " ", "\"", "v", "a", "l", "u", "e", "\"", "\n", "}">>, <<" ", "=", "{">>,
       <<"O", "B", "J", "E", "C", "T", "<", "0", ">", " ", "r", "o", "o", "t", " ", "=", " ", "1", " ", "{", "\n", "\t", "I", "N", "T", " ", "i", " ", "=", "\n", "}">>, <<"O", "B", "J", "E", "C", "T", "<", "0", ">", " ", "r", "o", "o", "t", " ", "=", " ", "1", " ", "{", "\n", "}">> >>

\* replacements that make a Reference node name the virtual identity of
\* another Object node of the text: <<from, to>>
Redirects == << << <<"P", "T", "R", "<", "3", ">", " ", "p", " ", "=", " ", "1">>, <<"P", "T", "R", "<", "3", ">", " ", "p", " ", "=", " ", "2">> >> >>

\* replacements that add an Object node no field asks for and make a
\* Reference node name its virtual identity: <<from, to>>
Unbinds ==
    << << <<"P", "T", "R", "<", "4", ">", " ", "p", " ", "=", " ", "2">>,
          <<"P", "T", "R", "<", "4", ">", " ", "p", " ", "=", " ", "3", "\n", "\t", "O", "B", "J", "E", "C", "T", "<", "4", ">", " ", "z", " ", "=", " ", "3", " ", "{", "\n", "\t", "\t", "P", "T", "R", "<", "3", ">", " ", "q", " ", "=", " ", "1", "\n", "\t", "\t", "I", "N", "T", " ", "w", " ", "=", " ", "1", "\n", "\t", "}">> >>,
       << <<"P", "T", "R", "<", "3", ">", " ", "p", " ", "=", " ", "1">>,
          <<"P", "T", "R", "<", "3", ">", " ", "p", " ", "=", " ", "3", "\n", "\t", "O", "B", "J", "E", "C", "T", "<", "3", ">", " ", "z", " ", "=", " ", "3", " ", "{", "\n", "\t", "\t", "I", "N", "T", " ", "v", " ", "=", " ", "1", "\n", "\t", "}">> >> >>

\* replacements that give a line a type tag the format does not know, or add
\* a line with such a tag: <<from, to>>
Retags ==
    << << <<"I", "N", "T", " ", "i">>, <<"F", "O", "O", " ", "i">> >>,
       << <<"I", "N", "T", " ", "v", "a", "l", "u", "e">>, <<"F", "O", "O", " ", "v", "a", "l", "u", "e">> >>,
       << <<"B", "O", "O", "L", " ", "b">>, <<"b", "o", "o", "l", " ", "b">> >>,
       << <<"I", "N", "T", " ", "x">>, <<"O", "B", "J", " ", "x">> >>,
       << <<"\n", "}">>, <<"\n", "\t", "F", "O", "O", " ", "z", " ", "=", " ", "1", "\n", "}">> >> >>

\* replacements that take the tab of a child line away or give the line one
\* tab more: <<from, to>>
Reindents ==
    << << <<"\n", "\t", "I", "N", "T", " ", "i">>, <<"\n", "I", "N", "T", " ", "i">> >>,
       << <<"\n", "\t", "I", "N", "T", " ", "i">>, <<"\n", "\t", "\t", "I", "N", "T", " ", "i">> >>,
       << <<"{", "\n", "\t">>, <<"{", "\n">> >>,
       << <<"\n", "\t", "\t", "\t", "I", "N", "T", " ", "x">>, <<"\n", "\t", "\t", "I", "N", "T", " ", "x">> >>,
       << <<"\n", "\t", "\t", "\t", "I", "N", "T", " ", "x">>, <<"\n", "\t", "\t", "\t", "\t", "I", "N", "T", " ", "x">> >>,
       << <<"\n", "\t", "O", "B", "J", "E", "C", "T", "<", "1", ">", " ", "m">>, <<"\n", "O", "B", "J", "E", "C", "T", "<", "1", ">", " ", "m">> >>,
       << <<"\n", "\t", "O", "B", "J", "E", "C", "T", "<", "1", ">", " ", "m">>, <<"\n", "\t", "\t", "O", "B", "J", "E", "C", "T", "<", "1", ">", " ", "m">> >> >>

\* replacements that put a value without double quotes in the place of a
\* string value: <<from, to>>
Unquotes ==
    << << <<"S", "T", "R", "I", "N", "G", " ", "s", " ", "=", " ", "\"", "a", " ", "b", "\"">>, <<"S", "T", "R", "I", "N", "G", " ", "s", " ", "=", " ", "1", "2", "3">> >>,
       << <<"S", "T", "R", "I", "N", "G", " ", "s", " ", "=", " ", "\"", "{", "}", "\"">>, <<"S", "T", "R", "I", "N", "G", " ", "s", " ", "=", " ", "7">> >>,
       << <<"S", "T", "R", "I", "N", "G", " ", "s", " ", "=", " ", "\"", "a", " ", "b", "\"">>, <<"S", "T", "R", "I", "N", "G", " ", "s", " ", "=", " ", "a", " ", "b", "\"">> >> >>

\* replacements that add a blank line to a text: an empty indented line at
\* the end or in the middle of an object body, a newline after the closing
\* brace of the root: <<from, to>>
Blanks ==
    << << <<"\n", "}">>, <<"\n", "\t", "\n", "}">> >>,
       << <<"\n", "}">>, <<"\n", "}", "\n">> >>,
       << <<"\n", "\t", "I", "N", "T", " ", "i">>, <<"\n", "\t", "\n", "\t", "I", "N", "T", " ", "i">> >>,
       << <<"\n", "\t", "\t", "}">>, <<"\n", "\t", "\t", "\t", "\n", "\t", "\t", "}">> >> >>

\* replacements that add a child no field of the classes asks for, a
\* Primitive, a Reference or an Object node, at the end or at the head of the
\* body of the root: <<from, to>>
Extras ==
    << << <<"\n", "}">>, <<"\n", "\t", "I", "N", "T", " ", "z", " ", "=", " ", "1", "\n", "}">> >>,
       << <<"\n", "}">>, <<"\n", "\t", "P", "T", "R", "<", "0", ">", " ", "z", " ", "=", " ", "1", "\n", "}">> >>,
       << <<"\n", "}">>, <<"\n", "\t", "O", "B", "J", "E", "C", "T", "<", "2", ">", " ", "z", " ", "=", " ", "9", " ", "{", "\n", "\t", "\t", "I", "N", "T", " ", "x", " ", "=", " ", "1", "\n", "\t", "}", "\n", "}">> >>,
       << <<"r", "o", "o", "t", " ", "=", " ", "1", " ", "{", "\n">>, <<"r", "o", "o", "t", " ", "=", " ", "1", " ", "{", "\n", "\t", "P", "T", "R", "<", "0", ">", " ", "z", " ", "=", " ", "9", "\n">> >> >>

\* the text a client makes of str
tamper(str, t) ==
    CASE t.kind = "none"    -> str
      [] t.kind = "drop"    -> SubSeq(str, 1, Len(str) - t.arg)
      [] t.kind = "head"    -> SubSeq(str, 1, find(str, "{") + 1)
      [] t.kind = "last"    -> SubSeq(str, 1, Len(str) - 1) \o <<"X">>
      [] t.kind = "append"  -> str \o Suffixes[t.arg]
      [] t.kind = "replace" -> replaceAll(str, Replacements[t.arg][1], Replacements[t.arg][2])
      [] t.kind = "literal" -> Literals[t.arg]
      [] t.kind = "retag"   -> replaceAll(str, Retags[t.arg][1], Retags[t.arg][2])
      [] t.kind = "reindent" -> replaceAll(str, Reindents[t.arg][1], Reindents[t.arg][2])
      [] t.kind = "unquote"  -> replaceAll(str, Unquotes[t.arg][1], Unquotes[t.arg][2])
      [] t.kind = "blank"    -> replaceAll(str, Blanks[t.arg][1], Blanks[t.arg][2])
      [] t.kind = "extra"    -> replaceAll(str, Extras[t.arg][1], Extras[t.arg][2])
      [] t.kind = "redirect" -> replaceAll(str, Redirects[t.arg][1], Redirects[t.arg][2])
      [] t.kind = "unbind"   -> replaceAll(str, Unbinds[t.arg][1], Unbinds[t.arg][2])

Tamperings ==
    [kind : {"drop"}, arg : 1..MaxDrop]
        \cup [kind : {"head", "last"}, arg : {0}]
        \cup [kind : {"append"}, arg : 1..Len(Suffixes)]
        \cup [kind : {"replace"}, arg : 1..Len(Replacements)]
        \cup [kind : {"literal"}, arg : 1..Len(Literals)]

\* a client calls this->deserialize(data), data being the text of the last
\* serialize call as it is or as the client changed it
DeserializeWithin(bound, this, t, ord) ==
    /\ steps < bound
    /\ t.kind \in {"none", "literal"} \/ text # <<>>
    /\ \E data \in {tamper(text, t)} :
          /\ t.kind \in {"none", "literal"} \/ data # text
          /\ \E r0 \in {deserialize(heap, engine, this, data, ord, "crash")} :
                \E r \in IF r0.result = "CRASH"
                          THEN {deserialize(heap, engine, this, data, ord, ub) : ub \in UBOutcomes}
                          ELSE {r0} :
                   /\ heap' = r.h
                   /\ engine' = r.eng
                   /\ call' = [op |-> "deserialize", object |-> this, input |-> data,
                               tamper |-> t, status |-> r.result, output |-> <<>>,
                               before |-> heap, ord |-> ord]
    /\ steps' = steps + 1
    /\ UNCHANGED <<text, origin, file>>

Deserialize(this, t, ord) == DeserializeWithin(MaxSteps, this, t, ord)

Next ==
    \/ \E this \in (Sources \cup Targets) \cap DOMAIN heap, ord \in Orders : Serialize(this, ord)
    \/ \E this \in Targets \cap DOMAIN heap, t \in Tamperings \cup {noTamper},
          ord \in Orders : Deserialize(this, t, ord)

Spec == Init /\ [][Next]_vars

\* the three families of objects on their own
SpecPlain == InitPlain /\ [][Next]_vars

InitString ==
    /\ \E class \in {"T", "W"}, s \in StringValues : heap = StringHeap(class, s)
    /\ engine = [a \in DOMAIN heap |-> idle]
    /\ text = <<>> /\ origin = noOrigin /\ call = noCall(heap) /\ steps = 0
    /\ file = noFile

SpecString == InitString /\ [][Next]_vars

InitBasic ==
    /\ \E class \in {"B", "L"}, value \in BasicValues : heap = BasicHeap(class, value)
    /\ engine = [a \in DOMAIN heap |-> idle]
    /\ text = <<>> /\ origin = noOrigin /\ call = noCall(heap) /\ steps = 0
    /\ file = noFile

SpecBasic == InitBasic /\ [][Next]_vars

SpecRef == InitRef /\ [][Next]_vars

SpecSelf == InitSelf /\ [][Next]_vars

SpecNamed == InitNamed /\ [][Next]_vars

\* --- the string codec on its own ------------------------------------------
\* the pieces a client's string is put together from: the two characters
\* that are escaped, the two entities that stand for them, and others
Pieces == { <<"\"">>, <<"\n">>, <<"&", "q", "u", "o", "t", ";">>, <<"&", "n", "e", "w", "l", "i", "n", "e", ";">>, <<"a">>, <<"&">> }

RECURSIVE joined(_)
joined(pieces) == IF pieces = <<>> THEN <<>> ELSE Head(pieces) \o joined(Tail(pieces))

Strings == UNION { {joined(ps) : ps \in [1..n -> Pieces]} : n \in 0..MaxPieces }

InitCodec ==
    /\ heap = emptyMap
    /\ engine = [a \in DOMAIN heap |-> idle]
    /\ text \in Strings
    /\ origin = noOrigin
    /\ call = noCall(heap)
    /\ steps = 0
    /\ file = noFile

\* text = encodeString(text)
EncodeString ==
    /\ steps < MaxSteps
    /\ text' = encodeString(text)
    /\ call' = [op |-> "encodeString", object |-> 0, input |-> text, tamper |-> noTamper,
                status |-> "OK", output |-> text', before |-> heap, ord |-> 0]
    /\ steps' = steps + 1
    /\ UNCHANGED <<heap, engine, origin, file>>

\* text = decodeString(text); substring throws std::out_of_range on the
\* empty string
DecodeString ==
    /\ steps < MaxSteps
    /\ \E unsafe \in {decodeString(text)} :
          /\ text' = IF unsafe = THROWN THEN text ELSE unsafe
          /\ call' = [op |-> "decodeString", object |-> 0, input |-> text, tamper |-> noTamper,
                      status |-> IF unsafe = THROWN THEN "EXCEPTION" ELSE "OK",
                      output |-> IF unsafe = THROWN THEN <<>> ELSE unsafe,
                      before |-> heap, ord |-> 0]
    /\ steps' = steps + 1
    /\ UNCHANGED <<heap, engine, origin, file>>

NextCodec == EncodeString \/ DecodeString

SpecCodec == InitCodec /\ [][NextCodec]_vars

\* --- files -----------------------------------------------------------------
\* what a client finds at the path before its first call
Files == { noFile, regular(<<"o", "l", "d">>), directory }

InitFile ==
    /\ \/ \E class \in {"B", "L"}, value \in BasicValues : heap = BasicHeap(class, value)
       \/ \E v \in RefValues : heap = RefHeap(v[1], v[2], v[3], v[4])
    /\ engine = [a \in DOMAIN heap |-> idle]
    /\ text = <<>> /\ origin = noOrigin /\ call = noCall(heap) /\ steps = 0
    /\ file \in Files

\* a client calls this->save(path): std::ofstream opens the path, which
\* creates or empties the file, before serialize() runs
Save(this, ord) ==
    /\ steps < MaxSteps
    /\ IF file.kind = "directory"
       THEN /\ call' = [op |-> "save", object |-> this, input |-> <<>>, tamper |-> noTamper,
                        status |-> "FILE", output |-> <<>>, before |-> heap, ord |-> ord]
            /\ UNCHANGED <<engine, file>>
       ELSE \E r \in {serialize(heap, engine, this, ord)} :
               /\ engine' = r.eng
               /\ file' = IF r.result = "OK" THEN regular(r.data) ELSE regular(<<>>)
               /\ call' = [op |-> "save", object |-> this, input |-> <<>>, tamper |-> noTamper,
                           status |-> r.result, output |-> <<>>, before |-> heap, ord |-> ord]
    /\ steps' = steps + 1
    /\ UNCHANGED <<heap, text, origin>>

\* a client calls this->load(path) on a path that names a regular file or
\* nothing
Load(this, ord) ==
    /\ steps < MaxSteps
    /\ file.kind # "directory"
    /\ IF file.kind = "absent"
       THEN /\ call' = [op |-> "load", object |-> this, input |-> <<>>, tamper |-> noTamper,
                        status |-> "FILE", output |-> <<>>, before |-> heap, ord |-> ord]
            /\ UNCHANGED <<heap, engine>>
       ELSE \E r0 \in {deserialize(heap, engine, this, file.data, ord, "crash")} :
               \E r \in IF r0.result = "CRASH"
                         THEN {deserialize(heap, engine, this, file.data, ord, ub) : ub \in UBOutcomes}
                         ELSE {r0} :
                  /\ heap' = r.h
                  /\ engine' = r.eng
                  /\ call' = [op |-> "load", object |-> this, input |-> file.data,
                              tamper |-> noTamper, status |-> r.result, output |-> <<>>,
                              before |-> heap, ord |-> ord]
    /\ steps' = steps + 1
    /\ UNCHANGED <<text, origin, file>>

NextFile ==
    \/ \E this \in (Sources \cup Targets) \cap DOMAIN heap, ord \in Orders : Save(this, ord)
    \/ \E this \in Targets \cap DOMAIN heap, ord \in Orders : Load(this, ord)

SpecFile == InitFile /\ [][NextFile]_vars

\* --- unknown type tags -------------------------------------------------------
Retaggings == [kind : {"retag"}, arg : 1..Len(Retags)]

InitTagged == InitPlain \/ InitBasic

NextTagged ==
    \/ \E this \in (Sources \cup Targets) \cap DOMAIN heap, ord \in Orders : Serialize(this, ord)
    \/ \E this \in Targets \cap DOMAIN heap, t \in Retaggings \cup {noTamper},
          ord \in Orders : Deserialize(this, t, ord)

SpecTagged == InitTagged /\ [][NextTagged]_vars

\* --- redirected references ---------------------------------------------------
Redirections == [kind : {"redirect"}, arg : 1..Len(Redirects)]

NextRedirected ==
    \/ \E this \in (Sources \cup Targets) \cap DOMAIN heap, ord \in Orders : Serialize(this, ord)
    \/ \E this \in Targets \cap DOMAIN heap, t \in Redirections \cup {noTamper},
          ord \in Orders : Deserialize(this, t, ord)

SpecRedirected == InitRef /\ [][NextRedirected]_vars

\* --- indentation ---------------------------------------------------------
Reindentations == [kind : {"reindent"}, arg : 1..Len(Reindents)]

NextIndented ==
    \/ \E this \in (Sources \cup Targets) \cap DOMAIN heap, ord \in Orders : Serialize(this, ord)
    \/ \E this \in Targets \cap DOMAIN heap, t \in Reindentations \cup {noTamper},
          ord \in Orders : Deserialize(this, t, ord)

SpecIndented == InitPlain /\ [][NextIndented]_vars

\* --- string values without quotes --------------------------------------------
Unquotings == [kind : {"unquote"}, arg : 1..Len(Unquotes)]

NextUnquoted ==
    \/ \E this \in (Sources \cup Targets) \cap DOMAIN heap, ord \in Orders : Serialize(this, ord)
    \/ \E this \in Targets \cap DOMAIN heap, t \in Unquotings \cup {noTamper},
          ord \in Orders : Deserialize(this, t, ord)

SpecUnquoted == InitString /\ [][NextUnquoted]_vars

\* --- blank lines -------------------------------------------------------------
Blankings == [kind : {"blank"}, arg : 1..Len(Blanks)]

NextBlank ==
    \/ \E this \in (Sources \cup Targets) \cap DOMAIN heap, ord \in Orders : Serialize(this, ord)
    \/ \E this \in Targets \cap DOMAIN heap, t \in Blankings \cup {noTamper},
          ord \in Orders : Deserialize(this, t, ord)

SpecBlank == InitTagged /\ [][NextBlank]_vars

\* --- children no field asks for ----------------------------------------------
Additions == [kind : {"extra"}, arg : 1..Len(Extras)]

NextExtra ==
    \/ \E this \in (Sources \cup Targets) \cap DOMAIN heap, ord \in Orders : Serialize(this, ord)
    \/ \E this \in Targets \cap DOMAIN heap, t \in Additions \cup {noTamper},
          ord \in Orders : Deserialize(this, t, ord)

SpecExtra == InitTagged /\ [][NextExtra]_vars

\* --- the failure flag --------------------------------------------------------
\* the replacements that rename a node or change its kind, type or class
Latchings == [kind : {"replace"}, arg : Renames \cup Retypes]

InitLatched == InitPlain \/ InitRef

NextLatched ==
    \/ \E this \in (Sources \cup Targets) \cap DOMAIN heap, ord \in Orders : Serialize(this, ord)
    \/ \E this \in Targets \cap DOMAIN heap, t \in Latchings \cup {noTamper},
          ord \in Orders : Deserialize(this, t, ord)

SpecLatched == InitLatched /\ [][NextLatched]_vars

\* --- forward references ------------------------------------------------------
\* <<p, q, tp, tq>>: the reference p of the source refers to its member n,
\* which is declared after p; that of the target refers to the member of
\* the source
ForwardValues == { <<310, 300, 310, 400>>, <<310, 400, 310, 300>> }

InitForward ==
    /\ \E v \in ForwardValues \cup RefValues : heap = RefHeap(v[1], v[2], v[3], v[4])
    /\ engine = [a \in DOMAIN heap |-> idle]
    /\ text = <<>> /\ origin = noOrigin /\ call = noCall(heap) /\ steps = 0
    /\ file = noFile

SpecForward == InitForward /\ [][NextLatched]_vars

\* --- a member exposed under two names ----------------------------------------
InitShared ==
    /\ \/ \E v \in PlainValues : heap = PlainHeap(v[1], v[2], v[3], v[4])
       \/ \E v \in PlainValues : heap = SharedHeap(v[3], v[4])
    /\ engine = [a \in DOMAIN heap |-> idle]
    /\ text = <<>> /\ origin = noOrigin /\ call = noCall(heap) /\ steps = 0
    /\ file = noFile

SpecShared == InitShared /\ [][Next]_vars

\* --- calls repeated on one instance -------------------------------------------
\* the changes a client makes to a text between two calls on the instance
Disturbances ==
    [kind : {"replace"}, arg : {2, 4, 7, 12}] \cup [kind : {"last"}, arg : {0}]

InitRepeated == InitPlain \/ InitRef

NextRepeated ==
    \/ \E this \in (Sources \cup Targets) \cap DOMAIN heap, ord \in Orders :
          SerializeWithin(MaxCalls, this, ord)
    \/ \E this \in Targets \cap DOMAIN heap, t \in Disturbances \cup {noTamper},
          ord \in Orders : DeserializeWithin(MaxCalls, this, t, ord)

SpecRepeated == InitRepeated /\ [][NextRepeated]_vars

\* --- references to Object nodes no field consumed ------------------------------
Unbindings == [kind : {"unbind"}, arg : 1..Len(Unbinds)]

NextUnbound ==
    \/ \E this \in (Sources \cup Targets) \cap DOMAIN heap, ord \in Orders : Serialize(this, ord)
    \/ \E this \in Targets \cap DOMAIN heap, t \in Unbindings \cup {noTamper},
          ord \in Orders : Deserialize(this, t, ord)

SpecUnbound == InitForward /\ [][NextUnbound]_vars

\* --- the integer conversions on their own ----------------------------------------
IntegerTypes == {"char", "uchar", "short", "ushort", "int", "uint", "long", "ulong"}

\* the deserializer of an integer type
stringToInteger(type, str) ==
    CASE type = "char"   -> stringToChar(str)
      [] type = "uchar"  -> stringToUChar(str)
      [] type = "short"  -> stringToShort(str)
      [] type = "ushort" -> stringToUShort(str)
      [] type = "int"    -> stringToInt(str)
      [] type = "uint"   -> stringToUInt(str)
      [] type = "long"   -> stringToLong(str)
      [] type = "ulong"  -> stringToULong(str)

\* the value texts a Primitive node may carry
Numerals ==
    { <<"0">>, <<"4", "2">>, <<"-", "4", "2">>, <<"f", "o", "r", "t", "y", "-", "t", "w", "o">>, <<>>, <<"-">>, <<"-", "1">>, <<" ", "-", "1">>, <<" ", "4", "2">>,
      <<"1", "2", "7">>, <<"1", "2", "8">>, <<"-", "1", "2", "8">>, <<"-", "1", "2", "9">>, <<"2", "5", "5">>, <<"2", "5", "6">>,
      <<"3", "2", "7", "6", "7">>, <<"3", "2", "7", "6", "8">>, <<"-", "3", "2", "7", "6", "8">>, <<"-", "3", "2", "7", "6", "9">>, <<"6", "5", "5", "3", "5">>, <<"6", "5", "5", "3", "6">>,
      <<"2", "1", "4", "7", "4", "8", "3", "6", "4", "7">>, <<"2", "1", "4", "7", "4", "8", "3", "6", "4", "8">>, <<"-", "2", "1", "4", "7", "4", "8", "3", "6", "4", "8">>, <<"-", "2", "1", "4", "7", "4", "8", "3", "6", "4", "9">>,
      <<"4", "2", "9", "4", "9", "6", "7", "2", "9", "5">>, <<"4", "2", "9", "4", "9", "6", "7", "2", "9", "6">>,
      <<"9", "2", "2", "3", "3", "7", "2", "0", "3", "6", "8", "5", "4", "7", "7", "5", "8", "0", "7">>, <<"9", "2", "2", "3", "3", "7", "2", "0", "3", "6", "8", "5", "4", "7", "7", "5", "8", "0", "8">>,
      <<"-", "9", "2", "2", "3", "3", "7", "2", "0", "3", "6", "8", "5", "4", "7", "7", "5", "8", "0", "8">>, <<"-", "9", "2", "2", "3", "3", "7", "2", "0", "3", "6", "8", "5", "4", "7", "7", "5", "8", "0", "9">>,
      <<"1", "8", "4", "4", "6", "7", "4", "4", "0", "7", "3", "7", "0", "9", "5", "5", "1", "6", "1", "5">>, <<"1", "8", "4", "4", "6", "7", "4", "4", "0", "7", "3", "7", "0", "9", "5", "5", "1", "6", "1", "6">>,
      <<" ", "-", "1", "8", "4", "4", "6", "7", "4", "4", "0", "7", "3", "7", "0", "9", "5", "5", "1", "6", "1", "5">>, <<" ", "-", "1", "8", "4", "4", "6", "7", "4", "4", "0", "7", "3", "7", "0", "9", "5", "5", "1", "3", "6", "1">>, <<" ", "-", "1", "8", "4", "4", "6", "7", "4", "4", "0", "6", "9", "4", "1", "4", "5", "8", "4", "3", "2", "1">>,
      <<" ", "-", "1", "8", "4", "4", "6", "7", "4", "4", "0", "6", "9", "4", "1", "4", "5", "8", "4", "3", "2", "0">> }

InitNumbers ==
    /\ heap = emptyMap
    /\ engine = [a \in DOMAIN heap |-> idle]
    /\ text \in Numerals
    /\ origin = noOrigin
    /\ call = noCall(heap)
    /\ steps = 0
    /\ file = noFile

\* exposePrimitive hands the value text of a node to the deserializer of
\* the type of the field; no value makes the result TYPECHECK
StringToInteger(type) ==
    /\ steps < MaxSteps
    /\ \E r \in {stringToInteger(type, text)} :
          call' = [op |-> type, object |-> 0, input |-> text, tamper |-> noTamper,
                   status |-> IF r.some THEN "OK" ELSE "TYPECHECK",
                   output |-> r, before |-> heap, ord |-> 0]
    /\ steps' = steps + 1
    /\ UNCHANGED <<heap, engine, text, origin, file>>

NextNumbers == \E type \in IntegerTypes : StringToInteger(type)

SpecNumbers == InitNumbers /\ [][NextNumbers]_vars

\* ------------------------------------------------------------------------
\* Vocabulary of the properties
\* ------------------------------------------------------------------------
fieldsOfKind(h, a, kind) == {k \in 1..Len(fieldsOf(h, a)) : fieldsOf(h, a)[k].kind = kind}

\* a and the objects nested in it, at any depth
RECURSIVE members(_, _)
members(h, a) ==
    {a} \cup UNION {members(h, h[a].val[k]) : k \in fieldsOfKind(h, a, "object")}

\* the reference fields <<object, field>> of a and of the objects nested in it
references(h, a) ==
    {<<m, k>> : m \in members(h, a), k \in 1..2} \cap
        {loc \in (DOMAIN h) \X (1..2) : loc[2] \in fieldsOfKind(h, loc[1], "pointer")}

refFree(h, a) == references(h, a) = {}

hasNullRef(h, a) == \E loc \in references(h, a) : h[loc[1]].val[loc[2]] = 0

\* the Object nodes and the Reference nodes of a tree, at any depth
RECURSIVE objectNodes(_)
objectNodes(node) ==
    {node} \cup UNION {objectNodes(node.children[n]) :
                          n \in {c \in DOMAIN node.children : node.children[c].kind = "object"}}

referenceNodes(node) ==
    UNION {{o.children[n] : n \in {c \in DOMAIN o.children : o.children[c].kind = "pointer"}} :
              o \in objectNodes(node)}

\* object a1 of heap h1 and object a2 of heap h2 hold the same values in their
\* primitive fields, at every depth
RECURSIVE DeepEqual(_, _, _, _)
DeepEqual(h1, a1, h2, a2) ==
    /\ h1[a1].class = h2[a2].class
    /\ \A k \in 1..Len(fieldsOf(h1, a1)) :
          LET f == fieldsOf(h1, a1)[k]
          IN CASE f.kind = "object"  -> DeepEqual(h1, h1[a1].val[k], h2, h2[a2].val[k])
               [] f.kind = "pointer" -> TRUE
               [] OTHER              -> h1[a1].val[k] = h2[a2].val[k]

serialized == call.op = "serialize"

deserialized == call.op = "deserialize"

\* the last call read the text of the last successful serialize call unchanged
readBack == deserialized /\ call.tamper = noTamper /\ origin # noOrigin

\* the tree the input of the last call parses to, before any field consumed it
parsedInput == SerialObject_set(emptyObject, call.input).node

\* ------------------------------------------------------------------------
\* C1: an object made of boolean, integer and enum primitives and nested
\* objects, without reference fields, serializes with OK, and reading the
\* returned text into an instance of the same type returns OK and leaves
\* every field at every depth equal to the field of the source.
\* ------------------------------------------------------------------------
C1_RoundTrip ==
    /\ (serialized /\ refFree(call.before, call.object))
          => (call.status = "OK" /\ call.output # <<>>)
    /\ (/\ readBack
        /\ refFree(origin.heap, origin.root)
        /\ origin.heap[origin.root].class = call.before[call.object].class)
          => (call.status = "OK" /\ DeepEqual(heap, call.object, origin.heap, origin.root))

\* the values of 100 have been read into the default instance 200, down to
\* the innermost member
C1_Witness ==
    /\ readBack
    /\ origin.root = 100
    /\ call.object = 200
    /\ call.status = "OK"
    /\ call.before[200].val[1] = FALSE
    /\ call.before[220].val[1] = 0
    /\ heap[200].val[1] = TRUE
    /\ heap[210].val[1] = 2
    /\ heap[220].val[1] = -7

\* ------------------------------------------------------------------------
\* C2: an object whose reference field refers to the object itself
\* serializes with OK, and reading that text into an instance whose
\* reference field is not null returns OK and leaves the reference field
\* referring to the instance that was read into.
\* ------------------------------------------------------------------------
selfReferring(h, a) ==
    /\ fieldsOfKind(h, a, "pointer") # {}
    /\ \A k \in fieldsOfKind(h, a, "pointer") : h[a].val[k] = a
    /\ fieldsOfKind(h, a, "object") = {}

C2_SelfReference ==
    /\ (serialized /\ selfReferring(call.before, call.object)) => call.status = "OK"
    /\ (/\ readBack
        /\ selfReferring(origin.heap, origin.root)
        /\ origin.heap[origin.root].class = call.before[call.object].class
        /\ ~hasNullRef(call.before, call.object))
          => (/\ call.status = "OK"
              /\ selfReferring(heap, call.object)
              /\ DeepEqual(heap, call.object, origin.heap, origin.root))

\* 600 referred to the source 500 before the call and refers to itself after
C2_Witness ==
    /\ readBack
    /\ origin.root = 500
    /\ call.object = 600
    /\ call.before[600].val[1] = 500
    /\ call.status = "OK"
    /\ heap[600].val[1] = 600

\* ------------------------------------------------------------------------
\* C3: when serialize returns OK, every Reference node of the emitted text,
\* in the root and in nested objects at any depth, carries the virtual
\* identity of the Object node its target produced; and when a reference at
\* any depth targets an object that is exposed nowhere in the graph,
\* serialize returns POINTER.
\* ------------------------------------------------------------------------
\* the tree of the object the last call was made on
tree == engine[call.object].serial

\* the emitted text is the text of this tree
emitted == call.output = SerialObject_get(tree, call.ord)

\* the object the reference field behind a Reference node referred to
target(h, node) == h[node.location[1]].val[node.location[2]]

carriesVirtualIdentity(h, node) ==
    \E o \in objectNodes(tree) :
        o.realAddress = target(h, node) /\ node.address = o.virtualAddress

C3_Claim ==
    serialized =>
        /\ call.status = "OK" =>
              (emitted /\ \A node \in referenceNodes(tree) :
                              carriesVirtualIdentity(call.before, node))
        /\ (\E loc \in references(call.before, call.object) :
               call.before[loc[1]].val[loc[2]] \notin members(call.before, call.object))
              => call.status = "POINTER"

\* ------------------------------------------------------------------------
\* C4: when deserialize returns OK, every reference field of the target, in
\* the root and in nested objects at any depth, holds the identity of the
\* object that consumed the Object node whose virtual identity the
\* Reference node names; and when a Reference node at any depth names a
\* virtual identity that no Object node of the text carries, deserialize
\* returns POINTER.
\* ------------------------------------------------------------------------
\* the pairs <<object, virtual identity>> of the Object nodes consumed by a
\* and by the objects nested in it
RECURSIVE consumers(_, _, _)
consumers(h, a, node) ==
    {<<a, node.virtualAddress>>} \cup
        UNION {consumers(h, h[a].val[k], node.children[fieldsOf(h, a)[k].name]) :
                  k \in {j \in fieldsOfKind(h, a, "object") :
                            /\ hasChild(node, fieldsOf(h, a)[j].name)
                            /\ node.children[fieldsOf(h, a)[j].name].kind = "object"}}

\* every reference field of a, and of the objects nested in it, holds the
\* object that map gives for the identity its Reference node names
RECURSIVE restoredIn(_, _, _, _)
restoredIn(h, a, node, map) ==
    /\ \A k \in fieldsOfKind(h, a, "pointer") :
          LET name == fieldsOf(h, a)[k].name
          IN (hasChild(node, name) /\ node.children[name].kind = "pointer")
                => <<h[a].val[k], node.children[name].address>> \in map
    /\ \A k \in fieldsOfKind(h, a, "object") :
          LET name == fieldsOf(h, a)[k].name
          IN (hasChild(node, name) /\ node.children[name].kind = "object")
                => restoredIn(h, h[a].val[k], node.children[name], map)

dangling(node) ==
    \E ref \in referenceNodes(node) :
        ref.address \notin {o.virtualAddress : o \in objectNodes(node)}

C4_Claim ==
    deserialized =>
        /\ call.status = "OK" =>
              restoredIn(heap, call.object, parsedInput,
                         consumers(heap, call.object, parsedInput))
        /\ (call.status \in {"OK", "POINTER"} /\ dangling(parsedInput))
              => call.status = "POINTER"

\* ------------------------------------------------------------------------
\* C5: serializing an object that has a null reference field, in the root
\* or in any nested object, returns POINTER and the empty text; and every
\* serialize call that returns another status than OK returns the empty
\* text.
\* ------------------------------------------------------------------------
C5_NullReference ==
    serialized =>
        /\ hasNullRef(call.before, call.object)
              => (call.status = "POINTER" /\ call.output = <<>>)
        /\ call.status # "OK" => (call.output = <<>> /\ text = <<>>)

\* the null reference is in the nested object 310 of the root 300
C5_Witness ==
    /\ serialized
    /\ call.object = 300
    /\ call.before[300].val[2] # 0
    /\ call.before[310].val[1] = 0
    /\ call.status = "POINTER"
    /\ call.output = <<>>

\* ------------------------------------------------------------------------
\* C6: when deserialize returns STRUCTURE, or returns TYPECHECK because the
\* class tag of the root in the text differs from the class tag of the
\* target, every field of the target at every depth still has the value it
\* had before the call.
\* ------------------------------------------------------------------------
rootClassDiffers == parsedInput.classID # classID(call.before, call.object)

C6_Unchanged ==
    (deserialized /\ (call.status = "STRUCTURE" \/ (call.status = "TYPECHECK" /\ rootClassDiffers)))
        => heap = call.before

\* the text of 100 with another root class tag was refused by 200, whose
\* fields differ from those of 100
C6_Witness ==
    /\ deserialized
    /\ origin.root = 100
    /\ call.object = 200
    /\ call.tamper = [kind |-> "replace", arg |-> 9]
    /\ call.status = "TYPECHECK"
    /\ rootClassDiffers
    /\ ~DeepEqual(call.before, 200, origin.heap, 100)
    /\ heap = call.before

\* ------------------------------------------------------------------------
\* C7: a text whose final closing brace is missing or replaced by other
\* characters, and a text with characters after the closing brace of the
\* root, is rejected by deserialize with STRUCTURE.
\* ------------------------------------------------------------------------
brokenEnd == deserialized /\ call.tamper.kind \in {"drop", "last", "append"}

C7_Claim == brokenEnd => call.status = "STRUCTURE"

\* ------------------------------------------------------------------------
\* C8: for every input text deserialize returns one of the six status
\* values; no text makes the call end in another way.
\* ------------------------------------------------------------------------
C8_Claim == deserialized => call.status \in Results

\* ------------------------------------------------------------------------
\* C9: when a field the describing method requests (a primitive, a nested
\* object or a reference) has no child node of its name in the Object node
\* it is read from, deserialize returns INTEGRITY.
\* ------------------------------------------------------------------------
\* a field of a, or of an object nested in a, has no child node in node
RECURSIVE lacksField(_, _, _)
lacksField(h, a, node) ==
    \E k \in 1..Len(fieldsOf(h, a)) :
        LET f == fieldsOf(h, a)[k]
        IN \/ ~hasChild(node, f.name)
           \/ /\ f.kind = "object"
              /\ node.children[f.name].kind = "object"
              /\ lacksField(h, h[a].val[k], node.children[f.name])

\* the last call read a text of the class of the target in which a client
\* changed the nodes of one name, into a target without null references
changed(args) ==
    /\ deserialized
    /\ origin # noOrigin
    /\ origin.heap[origin.root].class = call.before[call.object].class
    /\ call.tamper.kind = "replace"
    /\ call.tamper.arg \in args
    /\ ~hasNullRef(call.before, call.object)

\* the last call read an Object node without children into a target of the
\* class of the node
emptied ==
    /\ deserialized
    /\ call.tamper = [kind |-> "literal", arg |-> 5]
    /\ classID(call.before, call.object) = 0

\* a reference field of a, or of an object nested in a, refers to an object
\* of another class than the class tag of its Reference node: the describing
\* method stops there and requests no further field
RECURSIVE misreferenced(_, _, _)
misreferenced(h, a, node) ==
    \E k \in 1..Len(fieldsOf(h, a)) :
        LET f     == fieldsOf(h, a)[k]
            child == node.children[f.name]
        IN /\ hasChild(node, f.name)
           /\ \/ /\ f.kind = "pointer"
                 /\ child.kind = "pointer"
                 /\ h[a].val[k] # 0
                 /\ child.classID # classID(h, h[a].val[k])
              \/ /\ f.kind = "object"
                 /\ child.kind = "object"
                 /\ misreferenced(h, h[a].val[k], child)

nodeKind(f) == IF f.kind = "string" THEN "primitive" ELSE f.kind

nodeType(f) == IF f.kind = "string" THEN "STRING" ELSE f.type

\* a child node of node, at any depth, is not of the kind, the type or the
\* class of the field of a it is read into
RECURSIVE mistyped(_, _, _)
mistyped(h, a, node) ==
    \E k \in 1..Len(fieldsOf(h, a)) :
        LET f     == fieldsOf(h, a)[k]
            child == node.children[f.name]
        IN /\ hasChild(node, f.name)
           /\ \/ child.kind # nodeKind(f)
              \/ child.kind = "primitive" /\ child.type # nodeType(f)
              \/ child.kind = "object" /\ child.classID # classID(h, h[a].val[k])
              \/ child.kind = "object" /\ mistyped(h, h[a].val[k], child)

rootReferences(node) ==
    {node.children[n] : n \in {c \in DOMAIN node.children : node.children[c].kind = "pointer"}}

\* ref names the virtual identity of an Object node that an object of
\* another class than ref's class tag consumed
resolvesToOtherClass(h, a, node, ref) ==
    \E c \in consumers(h, a, node) : c[2] = ref.address /\ classID(h, c[1]) # ref.classID

C11_Claim ==
    (/\ deserialized
     /\ call.status \in {"OK", "POINTER", "TYPECHECK"}
     /\ \E ref \in rootReferences(parsedInput) :
           resolvesToOtherClass(call.before, call.object, parsedInput, ref))
        => call.status = "TYPECHECK"

\* ------------------------------------------------------------------------
\* C12: when deserialize returns TYPECHECK, none of the fields declared
\* directly in the root has been changed by the call.
\* ------------------------------------------------------------------------
\* the fields of a that are not nested objects
ownFields(h, a) == {k \in 1..Len(fieldsOf(h, a)) : fieldsOf(h, a)[k].kind # "object"}

C12_Claim ==
    (deserialized /\ call.status = "TYPECHECK")
        => \A k \in ownFields(call.before, call.object) :
              heap[call.object].val[k] = call.before[call.object].val[k]

\* ------------------------------------------------------------------------
\* Field names
\* ------------------------------------------------------------------------
\* a is an object whose first field has a chosen name
named(h, a) == a \in DOMAIN h /\ h[a].class \in NamedClasses

nameOf(h, a) == fieldsOf(h, a)[1].name

contains(str, c) == \E i \in 1..Len(str) : str[i] = c

\* the names of C13: spaces, quotes, braces, a leading type keyword, the
\* empty name; no newline and no equals sign
plainName(name) == ~contains(name, "\n") /\ ~contains(name, "=")

\* the last call read back the text of an object with a chosen field name
\* into an object of its class
namedReadBack ==
    /\ readBack
    /\ named(origin.heap, origin.root)
    /\ origin.heap[origin.root].class = call.before[call.object].class

\* ------------------------------------------------------------------------
\* C13: for an object with one or more fields, a field name that contains
\* spaces, double quotes, braces, or begins with a type keyword, and the
\* empty name, round-trips: serialize returns OK with the name emitted
\* verbatim, and deserializing that text returns OK with every field
\* restored.
\* ------------------------------------------------------------------------
C13_Claim ==
    /\ (serialized /\ named(call.before, call.object)
            /\ plainName(nameOf(call.before, call.object)))
          => /\ call.status = "OK"
             /\ occurrences(call.output,
                            <<"\n", "\t", "I", "N", "T", " ">> \o nameOf(call.before, call.object) \o <<" ", "=", " ">>) # {}
    /\ (namedReadBack /\ plainName(nameOf(origin.heap, origin.root)))
          => (call.status = "OK" /\ DeepEqual(heap, call.object, origin.heap, origin.root))

\* ------------------------------------------------------------------------
\* C14: a field name containing a literal newline is rejected with
\* STRUCTURE: no round trip of an object with such a field name ends with
\* another status than STRUCTURE.
\* ------------------------------------------------------------------------
C14_Claim ==
    (namedReadBack /\ contains(nameOf(origin.heap, origin.root), "\n"))
        => call.status = "STRUCTURE"

\* ------------------------------------------------------------------------
\* C15: the name of a line is delimited by the last ' = ' before the value,
\* so a field whose name contains an equals sign is parsed back with its
\* full name and round-trips.
\* ------------------------------------------------------------------------
C15_Claim ==
    (/\ namedReadBack
     /\ contains(nameOf(origin.heap, origin.root), "=")
     /\ ~contains(nameOf(origin.heap, origin.root), "\n"))
        => /\ hasChild(parsedInput, nameOf(origin.heap, origin.root))
           /\ call.status = "OK"
           /\ DeepEqual(heap, call.object, origin.heap, origin.root)

\* ------------------------------------------------------------------------
\* C16: decodeString(encodeString(s)) = s for every string s, including
\* strings that contain double quotes, newlines, and the character
\* sequences &quot; and &newline;: when decodeString is applied to what
\* encodeString has just returned, it returns the argument of encodeString.
\* ------------------------------------------------------------------------
C16_Claim ==
    [][(/\ call.op = "encodeString"
        /\ call'.op = "decodeString"
        /\ call'.input = call.output)
           => (call'.status = "OK" /\ call'.output = call.input)]_vars

\* ------------------------------------------------------------------------
\* String payloads
\* ------------------------------------------------------------------------
\* the values of the string fields of a and of the objects nested in it
payloads(h, a) ==
    UNION {{h[m].val[k] : k \in fieldsOfKind(h, m, "string")} : m \in members(h, a)}

\* a has a string field, or an object with a string field nested in it
hasPayload(h, a) == a \in DOMAIN h /\ payloads(h, a) # {}

\* ------------------------------------------------------------------------
\* C17: a string field whose value contains '{' or '}' round-trips in an
\* object that has further fields or that is nested inside another object,
\* whatever order the children are emitted in: reading the text back into an
\* object of the same class returns OK and restores every field.
\* ------------------------------------------------------------------------
C17_Claim ==
    (/\ readBack
     /\ hasPayload(origin.heap, origin.root)
     /\ origin.heap[origin.root].class = call.before[call.object].class
     /\ \E s \in payloads(origin.heap, origin.root) : contains(s, "{") \/ contains(s, "}"))
        => (call.status = "OK" /\ DeepEqual(heap, call.object, origin.heap, origin.root))

\* ------------------------------------------------------------------------
\* C18: save is all-or-nothing: when save(path) returns a status other than
\* OK, the file at path still has the contents it had before the call, or
\* still does not exist.
\* ------------------------------------------------------------------------
C18_Claim ==
    [][(call'.op = "save" /\ call'.status # "OK") => file' = file]_vars

\* ------------------------------------------------------------------------
\* The basic text
\* ------------------------------------------------------------------------
\* a has a single field, an int
singleInt(h, a) ==
    /\ a \in DOMAIN h
    /\ Len(fieldsOf(h, a)) = 1
    /\ fieldsOf(h, a)[1].kind = "primitive"
    /\ fieldsOf(h, a)[1].type = "INT"

\* the decimal numerals of the class tags and of the values of BasicValues
Numeral ==
    (0 :> <<"0">>) @@ (2 :> <<"2">>) @@ (42 :> <<"4", "2">>) @@ (-7 :> <<"-", "7">>)

\* 'OBJECT<c> root = 1 {\n\tINT n = v\n}'
basicText(c, n, v) ==
    <<"O", "B", "J", "E", "C", "T", "<">> \o Numeral[c] \o <<">", " ", "r", "o", "o", "t", " ", "=", " ", "1", " ", "{", "\n", "\t", "I", "N", "T", " ">> \o n \o <<" ", "=", " ">> \o Numeral[v] \o <<"\n", "}">>

\* ------------------------------------------------------------------------
\* C19: serialize of an object with class tag c and a single int field named
\* n of value v returns OK and exactly the text
\* 'OBJECT<c> root = 1 {\n\tINT n = v\n}'.
\* ------------------------------------------------------------------------
C19_BasicText ==
    (/\ serialized
     /\ singleInt(call.before, call.object)
     /\ call.before[call.object].val[1] \in DOMAIN Numeral)
        => /\ call.status = "OK"
           /\ call.output = basicText(classID(call.before, call.object),
                                      nameOf(call.before, call.object),
                                      call.before[call.object].val[1])

\* a Basic with value 42 and the default class tag has been serialized to
\* the text of testBasic
C19_Witness ==
    /\ serialized
    /\ call.before[call.object] = object("B", <<42>>)
    /\ call.status = "OK"
    /\ call.output = <<"O", "B", "J", "E", "C", "T", "<", "0", ">", " ", "r", "o", "o", "t", " ", "=", " ", "1", " ", "{", "\n", "\t", "I", "N", "T", " ", "v", "a", "l", "u", "e", " ", "=", " ", "4", "2", "\n", "}">>

\* ------------------------------------------------------------------------
\* Unknown type tags
\* ------------------------------------------------------------------------
\* the child nodes of a tree, at any depth, that were read from a line whose
\* type tag is no primitive type name, not OBJECT and not PTR
unknownTagged(node) ==
    UNION {{o.children[n] : n \in {c \in DOMAIN o.children :
                                      /\ o.children[c].kind = "primitive"
                                      /\ o.children[c].type = "VOID"}} :
              o \in objectNodes(node)}

\* ------------------------------------------------------------------------
\* C20: a child line whose leading type tag is none of the known primitive
\* type names, OBJECT or PTR makes deserialize return STRUCTURE, whether or
\* not the describing method requests a field of that name.
\* ------------------------------------------------------------------------
C20_Claim ==
    (/\ deserialized
     /\ call.tamper.kind = "retag"
     /\ unknownTagged(parsedInput) # {})
        => call.status = "STRUCTURE"

\* ------------------------------------------------------------------------
\* C21: deserialize returns STRUCTURE for a text in which a child line does
\* not begin with exactly as many tab characters as its nesting depth (a
\* child line without its tab, or with one tab more); such a line is never
\* silently accepted.
\* ------------------------------------------------------------------------
reindented == deserialized /\ call.tamper.kind = "reindent"

C21_Claim == reindented => call.status = "STRUCTURE"

\* ------------------------------------------------------------------------
\* Values of STRING nodes
\* ------------------------------------------------------------------------
enclosed(value) ==
    Len(value) >= 2 /\ value[1] = "\"" /\ value[Len(value)] = "\""

\* the STRING nodes of a tree, at any depth, whose value text is not
\* enclosed in double quotes
unquoted(node) ==
    UNION {{o.children[n] : n \in {c \in DOMAIN o.children :
                                      /\ o.children[c].kind = "primitive"
                                      /\ o.children[c].type = "STRING"
                                      /\ ~enclosed(o.children[c].value)}} :
              o \in objectNodes(node)}

\* ------------------------------------------------------------------------
\* C22: deserializing a STRING primitive whose value text is not enclosed in
\* double quotes (for example 123) yields TYPECHECK, and the string field is
\* left unchanged.
\* ------------------------------------------------------------------------
C22_Claim ==
    (/\ deserialized
     /\ call.tamper.kind = "unquote"
     /\ origin.heap[origin.root].class = call.before[call.object].class
     /\ unquoted(parsedInput) # {})
        => /\ call.status = "TYPECHECK"
           /\ payloads(heap, call.object) = payloads(call.before, call.object)

\* ------------------------------------------------------------------------
\* C23: blank lines are tolerated: an empty indented line inside an object
\* body, and a single newline after the closing brace of the root, are
\* ignored, so deserialize of an otherwise valid text containing them
\* returns OK.
\* ------------------------------------------------------------------------
C23_Claim ==
    (/\ deserialized
     /\ call.tamper.kind = "blank"
     /\ origin.heap[origin.root].class = call.before[call.object].class)
        => call.status = "OK"

\* ------------------------------------------------------------------------
\* C24: children present in the text that the describing method never
\* requests, whether Primitive, Object or Reference nodes, are ignored:
\* deserialize still returns OK and the requested fields are restored.
\* ------------------------------------------------------------------------
\* the names of the children of node that no field of a asks for
unrequested(h, a, node) ==
    {n \in DOMAIN node.children :
        \A k \in 1..Len(fieldsOf(h, a)) : fieldsOf(h, a)[k].name # n}

C24_Claim ==
    (/\ deserialized
     /\ call.tamper.kind = "extra"
     /\ origin.heap[origin.root].class = call.before[call.object].class
     /\ unrequested(call.before, call.object, parsedInput) # {})
        => (call.status = "OK" /\ DeepEqual(heap, call.object, origin.heap, origin.root))

\* ------------------------------------------------------------------------
\* The first failing field
\* ------------------------------------------------------------------------
\* what one exposure walk over the fields k, k + 1, ... of a, read from
\* node, has to come to when every value text converts: the status of the
\* first field, in declared order and at any depth, that has a null
\* reference, no child node, or a child node of another kind, type or
\* class, and the primitive fields <<object, field>> read before it
RECURSIVE latchFrom(_, _, _, _)
latchFrom(h, a, node, k) ==
    IF k > Len(fieldsOf(h, a)) THEN [status |-> "OK", done |-> {}]
    ELSE LET f     == fieldsOf(h, a)[k]
             child == node.children[f.name]
             own   == IF f.kind = "pointer" /\ h[a].val[k] = 0 THEN "POINTER"
                      ELSE IF ~hasChild(node, f.name) THEN "INTEGRITY"
                      ELSE IF child.kind # nodeKind(f) THEN "TYPECHECK"
                      ELSE IF child.kind = "primitive" /\ child.type # nodeType(f) THEN "TYPECHECK"
                      ELSE IF child.kind # "primitive" /\ child.classID # classID(h, h[a].val[k])
                      THEN "TYPECHECK"
                      ELSE "OK"
             inner == IF own = "OK" /\ f.kind = "object"
                      THEN latchFrom(h, h[a].val[k], child, 1)
                      ELSE [status |-> own,
                            done   |-> IF own = "OK" /\ f.kind # "pointer" THEN {<<a, k>>} ELSE {}]
             rest  == latchFrom(h, a, node, k + 1)
         IN IF inner.status # "OK" THEN inner
            ELSE [status |-> rest.status, done |-> inner.done \cup rest.done]

\* the last call read a well-formed text of the class of the target in
\* which at most the name, the kind, the type or the class of nodes was
\* changed
latchable ==
    /\ deserialized
    /\ origin # noOrigin
    /\ call.tamper = noTamper \/ call.tamper \in Latchings
    /\ SerialObject_set(emptyObject, call.input).ret = "true"
    /\ ~rootClassDiffers

\* the fields <<object, field>> of a and of the objects nested in it that
\* are no nested objects
leaves(h, a) ==
    {loc \in members(h, a) \X (1..3) :
        loc[2] <= Len(fieldsOf(h, loc[1])) /\ fieldsOf(h, loc[1])[loc[2]].kind # "object"}

\* a serialize call that met a null reference left in the tree of a exactly
\* the fields declared before it, and so in the nested object it met it in
RECURSIVE writeLatched(_, _, _)
writeLatched(h, eng, a) ==
    LET failing == {k \in 1..Len(fieldsOf(h, a)) :
                       \/ fieldsOf(h, a)[k].kind = "pointer" /\ h[a].val[k] = 0
                       \/ fieldsOf(h, a)[k].kind = "object" /\ hasNullRef(h, h[a].val[k])}
        first   == Least(failing)
    IN failing # {} =>
          /\ eng[a].result = "POINTER"
          /\ DOMAIN eng[a].serial.children = {fieldsOf(h, a)[k].name : k \in 1..(first - 1)}
          /\ fieldsOf(h, a)[first].kind = "object" => writeLatched(h, eng, h[a].val[first])

\* ------------------------------------------------------------------------
\* C25: in one exposure walk the first failing field latches the status: no
\* field declared after it, in the root or in any nested object, is
\* modified (read mode) or appended to the tree (write mode), and the status
\* returned by serialize/deserialize is the status of that first failing
\* field.
\* ------------------------------------------------------------------------
C25_Latch ==
    /\ (latchable /\ latchFrom(call.before, call.object, parsedInput, 1).status # "OK")
          => /\ call.status = latchFrom(call.before, call.object, parsedInput, 1).status
             /\ \A loc \in leaves(call.before, call.object) :
                   loc \notin latchFrom(call.before, call.object, parsedInput, 1).done
                       => heap[loc[1]].val[loc[2]] = call.before[loc[1]].val[loc[2]]
    /\ (serialized /\ hasNullRef(call.before, call.object))
          => /\ call.status = "POINTER"
             /\ call.output = <<>>
             /\ writeLatched(call.before, engine, call.object)

\* the field i of 200 was renamed in the text of 100: b, declared before it,
\* was read; x, declared after it in a nested object, was not
C25_Witness ==
    /\ deserialized
    /\ call.tamper = [kind |-> "replace", arg |-> 2]
    /\ origin.root = 100
    /\ call.object = 200
    /\ call.status = "INTEGRITY"
    /\ heap[200].val[1] # call.before[200].val[1]
    /\ heap[220].val[1] = call.before[220].val[1]
    /\ origin.heap[120].val[1] # call.before[220].val[1]

\* ------------------------------------------------------------------------
\* The walk and the references
\* ------------------------------------------------------------------------
\* the walk of the last deserialize call ran: the text was well-formed and
\* of the class of the target
walkRan ==
    /\ deserialized
    /\ SerialObject_set(emptyObject, call.input).ret = "true"
    /\ ~rootClassDiffers

\* the objects and the private members as the exposure walk of the last
\* deserialize call left them, before the address map was built
walked ==
    exposed([h      |-> call.before,
             eng    |-> [engine EXCEPT ![call.object] =
                            [mode |-> "DESERIALIZING", result |-> "OK", serial |-> parsedInput]],
             thrown |-> FALSE],
            call.object, 1)

\* the pairs of objects that stand at the same place in a1 of h1 and in a2
\* of h2, two objects of one class
RECURSIVE counterparts(_, _, _, _)
counterparts(h1, a1, h2, a2) ==
    {<<a1, a2>>} \cup
        UNION {counterparts(h1, h1[a1].val[k], h2, h2[a2].val[k]) :
                  k \in fieldsOfKind(h1, a1, "object")}

\* the reference field loc refers to an object that the walk reaches after
\* the field: a member declared later in the same object, or nested in one
forward(h, loc) ==
    \E k \in fieldsOfKind(h, loc[1], "object") :
        k > loc[2] /\ h[loc[1]].val[loc[2]] \in members(h, h[loc[1]].val[k])

\* ------------------------------------------------------------------------
\* C26: during deserialize no reference field is assigned while the
\* exposure walk is running: reference fields are written only after every
\* field has been processed, so a reference to an object declared later in
\* the walk resolves, and when the walk ends with an error no reference
\* field is assigned at all.
\* ------------------------------------------------------------------------
C26_Deferred ==
    /\ walkRan =>
          \A loc \in references(call.before, call.object) :
              walked.h[loc[1]].val[loc[2]] = call.before[loc[1]].val[loc[2]]
    /\ (walkRan /\ engine[call.object].result # "OK") =>
          /\ call.status = engine[call.object].result
          /\ \A loc \in references(call.before, call.object) :
                heap[loc[1]].val[loc[2]] = call.before[loc[1]].val[loc[2]]
    /\ (readBack /\ origin.heap[origin.root].class = call.before[call.object].class) =>
          \A pair \in counterparts(origin.heap, origin.root, heap, call.object) :
              \A k \in fieldsOfKind(origin.heap, pair[1], "pointer") :
                  forward(origin.heap, <<pair[1], k>>) =>
                      /\ call.status = "OK"
                      /\ <<origin.heap[pair[1]].val[k], heap[pair[2]].val[k]>>
                             \in counterparts(origin.heap, origin.root, heap, call.object)

\* the reference p of 300 refers to the member 310, declared after p; p of
\* 400 referred to 310 before the call and during the walk, and refers to
\* the member 410 of 400 after the call
C26_Witness ==
    /\ readBack
    /\ origin.root = 300
    /\ origin.heap[300].val[2] = 310
    /\ call.object = 400
    /\ call.before[400].val[2] = 310
    /\ walked.h[400].val[2] = 310
    /\ call.status = "OK"
    /\ heap[400].val[2] = 410

\* ------------------------------------------------------------------------
\* Virtual identities
\* ------------------------------------------------------------------------
\* the number of Object nodes of a tree
RECURSIVE objectCount(_)
RECURSIVE objectCountOf(_, _)
objectCountOf(node, names) ==
    IF names = {} THEN 0
    ELSE LET n == CHOOSE c \in names : TRUE
         IN (IF node.children[n].kind = "object" THEN objectCount(node.children[n]) ELSE 0)
                + objectCountOf(node, names \ {n})

objectCount(node) == 1 + objectCountOf(node, DOMAIN node.children)

identities(node) == {o.virtualAddress : o \in objectNodes(node)}

\* ------------------------------------------------------------------------
\* C27: after serialize returns OK the Object nodes of the emitted tree
\* carry pairwise distinct virtual identities that are exactly 1..N (N the
\* number of Object nodes), the root carries 1 and every object has a
\* smaller identity than each of its descendants, also when the same nested
\* object is exposed under two field names.
\* ------------------------------------------------------------------------
C27_Claim ==
    (serialized /\ call.status = "OK") =>
        /\ emitted
        /\ tree.virtualAddress = 1
        /\ identities(tree) = 1..objectCount(tree)
        /\ \A o \in objectNodes(tree) :
              \A d \in objectNodes(o) \ {o} : o.virtualAddress < d.virtualAddress

\* ------------------------------------------------------------------------
\* Calls repeated on one instance
\* ------------------------------------------------------------------------
\* the engine state of objects no call was made on
fresh == [a \in DOMAIN heap |-> idle]

\* the last call read the text the instance wrote itself, its fields being
\* what they were when it wrote the text
ownOutput == readBack /\ call.object = origin.root /\ call.before = origin.heap

\* ------------------------------------------------------------------------
\* C28: for any sequence of serialize and deserialize calls on the same
\* instance, successful or failed, the status and the text of each call
\* depend only on the field values of the object and the input text of the
\* call: nothing an earlier call left in the engine state changes the
\* outcome of a later one, so that serialize followed by deserialize of its
\* own output returns OK with the fields unchanged however often it is
\* repeated.
\* ------------------------------------------------------------------------
C28_Stateless ==
    /\ serialized =>
          \E r \in {serialize(call.before, fresh, call.object, call.ord)} :
              /\ call.status = r.result
              /\ call.output = r.data
              /\ heap = call.before
    /\ deserialized =>
          \E ub \in UBOutcomes :
              \E r \in {deserialize(call.before, fresh, call.object, call.input, call.ord, ub)} :
                  /\ call.status = r.result
                  /\ heap = r.h
    /\ ownOutput => (call.status = "OK" /\ heap = call.before)

\* the instance 200 reads its own output back as the last of MaxCalls calls
C28_Witness ==
    /\ steps = MaxCalls
    /\ ownOutput
    /\ call.object = 200
    /\ call.status = "OK"
    /\ engine # fresh

\* ------------------------------------------------------------------------
\* References to Object nodes no field consumed
\* ------------------------------------------------------------------------
\* the objects that consumed an Object node in the walk of the last call
bound == {c[1] : c \in consumers(call.before, call.object, parsedInput)}

\* the virtual identities of the Object nodes of the input no field consumed
unbound ==
    identities(parsedInput) \
        {c[2] : c \in consumers(call.before, call.object, parsedInput)}

\* the walk of the last call ended without an error, and a Reference node a
\* field of the root asked for names an Object node no field consumed
namesUnbound ==
    /\ walkRan
    /\ engine[call.object].result = "OK"
    /\ \E k \in fieldsOfKind(call.before, call.object, "pointer") :
          LET name == fieldsOf(call.before, call.object)[k].name
          IN /\ hasChild(parsedInput, name)
             /\ parsedInput.children[name].kind = "pointer"
             /\ parsedInput.children[name].address \in unbound

\* ------------------------------------------------------------------------
\* C29: whenever deserialize writes a reference field, the identity written
\* is that of a live object that consumed an Object node during the
\* exposure walk; a Reference node naming an Object node that no field
\* consumed is reported as POINTER, and no null or unbound identity is
\* stored in the field or used for the class-tag check.
\* ------------------------------------------------------------------------
C29_Claim ==
    /\ deserialized =>
          \A loc \in references(call.before, call.object) :
              heap[loc[1]].val[loc[2]] # call.before[loc[1]].val[loc[2]]
                  => heap[loc[1]].val[loc[2]] \in bound
    /\ namesUnbound =>
          /\ call.status = "POINTER"
          /\ \A loc \in references(call.before, call.object) : heap[loc[1]].val[loc[2]] # 0

\* ------------------------------------------------------------------------
\* Integer conversions
\* ------------------------------------------------------------------------
\* the numerals of the least and of the greatest value of an integer type
minDigits(type) ==
    CASE type = "char"  -> <<"1", "2", "8">>
      [] type = "short" -> <<"3", "2", "7", "6", "8">>
      [] type = "int"   -> <<"2", "1", "4", "7", "4", "8", "3", "6", "4", "8">>
      [] type = "long"  -> LONG_MIN_DIGITS
      [] OTHER          -> <<"0">>

maxDigits(type) ==
    CASE type = "char"   -> <<"1", "2", "7">>
      [] type = "uchar"  -> <<"2", "5", "5">>
      [] type = "short"  -> <<"3", "2", "7", "6", "7">>
      [] type = "ushort" -> <<"6", "5", "5", "3", "5">>
      [] type = "int"    -> <<"2", "1", "4", "7", "4", "8", "3", "6", "4", "7">>
      [] type = "uint"   -> UINT_MAX_DIGITS
      [] type = "long"   -> LONG_MAX_DIGITS
      [] type = "ulong"  -> ULONG_MAX_DIGITS

\* the text holds a number, and the number lies within the range of the type
withinRange(type, str) ==
    LET n == scanNumber(str)
    IN /\ n.valid
       /\ IF n.neg THEN DecLE(n.digits, minDigits(type)) ELSE DecLE(n.digits, maxDigits(type))

\* the conversion result r is the number the text holds
yields(str, r) ==
    LET n == scanNumber(str)
    IN IF r.wide
       THEN ~r.val.wrapped /\ r.val.neg = n.neg /\ r.val.digits = n.digits
       ELSE longToString(r.val) =
                (IF n.neg /\ n.digits # <<"0">> THEN <<"-">> ELSE <<>>) \o n.digits

converted == call.op \in IntegerTypes

\* ------------------------------------------------------------------------
\* C30: for each fixed-width integer type the text-to-value conversion
\* yields a value only when the number lies within the range of the type: a
\* number below the minimum or above the maximum, a negative literal for an
\* unsigned type and text without a number yield no value (TYPECHECK at
\* field level), and no value is truncated or wrapped modulo 2^w.
\* ------------------------------------------------------------------------
C30_Claim ==
    converted =>
        /\ call.status = "OK" <=> withinRange(call.op, call.input)
        /\ call.status = "OK" => yields(call.input, call.output)
====
